---- MODULE Spec2Model ----
(***************************************************************************)
(* Model of the video-edit highlight pipeline                               *)
(* (skills/video-edit/scripts/highlight.py): the range selector/merger,    *)
(* the run-directory manager and the resumable stages of main.             *)
(*                                                                         *)
(* Times are integers (ticks).  A JSON value is a record [k, v] whose k    *)
(* is the JSON type as Python sees it.                                     *)
(***************************************************************************)
EXTENDS Integers, Sequences, FiniteSets, TLC

(***************************************************************************)
(* Bounds of the model.                                                    *)
(***************************************************************************)
MaxRanges == 3      \* longest list handed to merge_ranges
MaxT      == 2      \* largest start/end tick of such a range
MaxSegs   == 2      \* most segments in a transcript
MaxItems  == 2      \* most items in a "highlights" list

NumNames  == 3      \* distinct run-directory names the clock, pid and token can give
MaxSec    == 1      \* the codec is tried on the seconds 0..MaxSec of a minute
MaxLines  == 5      \* most lines in a subtitle file
MaxTranslate == 101 \* most segments handed to translate_segments
MaxWrite  == 2      \* most segments handed to write_srt
MaxField  == 2      \* _format_time is tried on the fields 0..MaxField and the last one

VARIABLES
  m_pc, m_in, m_out,                 \* merge_ranges: position, argument, result
  s_pc, s_segments, s_data, s_out,       \* select_ranges: position, arguments, result
  rundirs,                           \* create_run_dir: the directories under output_dir
  r_pc, r_try, r_cand, r_ret,        \* create_run_dir: one entry per invocation
  args,                              \* main: the parsed command line
  cached, files,                     \* main: the run directory at the start, and now
  pc, rc, exc, msg,                  \* main: stage, exit code, exception, last error
  segments, llm_output, sel,         \* main: segments, llm_output, select_ranges(...)
  ranges, video_duration, clips,     \* main: ranges, video_duration, clips
  final_srt, output_files,           \* main: the file final_srt; output_files
  trace, printed,                    \* main: external calls made; files printed
  c_pc, c_in, c_out,                 \* timestamp codec: position, time, results
  p_pc, p_file, p_out,               \* parse_srt: position, lines of the file, result
  t_pc, t_segments, t_i,             \* translate_segments: position, segments, i
  t_requests, t_translations,        \* translate_segments: requests made; translations
  w_pc, w_segments, w_translations,  \* write_srt: position, arguments
  w_out,                             \* write_srt: the lines written
  a_pc, a_blocking,                  \* _query_result: position, blocking
  a_now, a_queries,                  \* _query_result: time since start_time; requests sent
  a_result, a_exc,                   \* _query_result: the last response; the exception raised
  sf_pc, sf_ms, sf_out,              \* _format_time: position, ms, the string returned
  ft_pc, ft_in, ft_out               \* format_timestamp: position, time, the string returned

mergeVars  == <<m_pc, m_in, m_out>>
selectVars == <<s_pc, s_segments, s_data, s_out>>
runDirVars == <<rundirs, r_pc, r_try, r_cand, r_ret>>
mainVars   == <<args, cached, files, pc, rc, exc, msg, segments, llm_output, sel,
                ranges, video_duration, clips, final_srt, output_files, trace, printed>>

codecVars  == <<c_pc, c_in, c_out>>
parseVars  == <<p_pc, p_file, p_out>>
translateVars == <<t_pc, t_segments, t_i, t_requests, t_translations>>
writeVars  == <<w_pc, w_segments, w_translations, w_out>>
asrVars    == <<a_pc, a_blocking, a_now, a_queries, a_result, a_exc>>
srtFormatVars == <<sf_pc, sf_ms, sf_out>>
fineFormatVars == <<ft_pc, ft_in, ft_out>>
utilVars   == <<codecVars, parseVars, translateVars, writeVars, asrVars, srtFormatVars, fineFormatVars>>
notCodec   == <<parseVars, translateVars, writeVars, asrVars, srtFormatVars, fineFormatVars>>
notParse   == <<codecVars, translateVars, writeVars, asrVars, srtFormatVars, fineFormatVars>>
notTranslate == <<codecVars, parseVars, writeVars, asrVars, srtFormatVars, fineFormatVars>>
notWrite   == <<codecVars, parseVars, translateVars, asrVars, srtFormatVars, fineFormatVars>>
notAsr     == <<codecVars, parseVars, translateVars, writeVars, srtFormatVars, fineFormatVars>>
notSrtFormat == <<codecVars, parseVars, translateVars, writeVars, asrVars, fineFormatVars>>
notFineFormat == <<codecVars, parseVars, translateVars, writeVars, asrVars, srtFormatVars>>

Max2(a, b) == IF a >= b THEN a ELSE b
Min2(a, b) == IF a <= b THEN a ELSE b

(***************************************************************************)
(* merge_ranges                                                            *)
(***************************************************************************)
\* a range dict built by select_ranges
Range(st, en, sc, rs) == [start |-> st, end |-> en, score |-> sc, reason |-> rs]

\* sorted(ranges, key=start): Python's sort is stable, so an item goes after
\* every item whose start is not greater than its own
RECURSIVE InsertByStart(_, _)
InsertByStart(item, sortedSeq) ==
  IF sortedSeq = <<>> THEN <<item>>
  ELSE IF Head(sortedSeq).start <= item.start
       THEN <<Head(sortedSeq)>> \o InsertByStart(item, Tail(sortedSeq))
       ELSE <<item>> \o sortedSeq

RECURSIVE SortedByStart(_)
SortedByStart(rgs) ==
  IF rgs = <<>> THEN <<>>
  ELSE InsertByStart(rgs[Len(rgs)],
                     SortedByStart(SubSeq(rgs, 1, Len(rgs) - 1)))

\* mutant of Absorb: the score of the first range is kept
AbsorbKeepScore(last, item) ==
  [start  |-> last.start,
   end    |-> Max2(last.end, item.end),
   score  |-> last.score,
   reason |-> IF item.reason # ""
              THEN (IF last.reason # "" THEN last.reason ELSE item.reason)
              ELSE last.reason]

\* the body of the if-branch: item is folded into the last merged range
Absorb(last, item) ==
  [start  |-> last.start,
   end    |-> Max2(last.end, item.end),
   score  |-> Max2(last.score, item.score),
   reason |-> IF item.reason # ""
              THEN (IF last.reason # "" THEN last.reason ELSE item.reason)
              ELSE last.reason]

\* mutant of MergeLoop: '<' where the code has '<='
RECURSIVE MergeLoopStrictLess(_, _)
MergeLoopStrictLess(rest, merged) ==
  IF rest = <<>> THEN merged
  ELSE LET item == Head(rest)
           n    == Len(merged)
           last == merged[n]
       IN IF item.start < last.end
          THEN MergeLoopStrictLess(Tail(rest), [merged EXCEPT ![n] = Absorb(last, item)])
          ELSE MergeLoopStrictLess(Tail(rest), Append(merged, item))

\* mutant of MergeLoop: the end is overwritten instead of max()
RECURSIVE MergeLoopNoMax(_, _)
MergeLoopNoMax(rest, merged) ==
  IF rest = <<>> THEN merged
  ELSE LET item == Head(rest)
           n    == Len(merged)
           last == merged[n]
       IN IF item.start <= last.end
          THEN MergeLoopNoMax(Tail(rest),
                 [merged EXCEPT ![n] = [Absorb(last, item) EXCEPT !.end = item.end]])
          ELSE MergeLoopNoMax(Tail(rest), Append(merged, item))

\* for item in ranges[1:]
RECURSIVE MergeLoop(_, _)
MergeLoop(rest, merged) ==
  IF rest = <<>> THEN merged
  ELSE LET item == Head(rest)
           n    == Len(merged)
           last == merged[n]
       IN IF item.start <= last.end
          THEN MergeLoop(Tail(rest), [merged EXCEPT ![n] = Absorb(last, item)])
          ELSE MergeLoop(Tail(rest), Append(merged, item))

merge_ranges(rgs) ==
  IF rgs = <<>> THEN <<>>
  ELSE LET s == SortedByStart(rgs)
       IN MergeLoop(Tail(s), <<Head(s)>>)

SeqsUpTo(S, n) == UNION {[1..k -> S] : k \in 0..n}

\* the inputs: every list of up to MaxRanges ranges with start and end in
\* 0..MaxT, in every order; score and reason, which merge_ranges never
\* compares with a time, are given by the position in the list
ScoreAt(i)  == (2 * i) % 3
ReasonAt(i) == <<"", "a", "b">>[(i % 3) + 1]

MergeInputs ==
  {[i \in DOMAIN times |-> Range(times[i][1], times[i][2], ScoreAt(i), ReasonAt(i))] :
     times \in SeqsUpTo((0..MaxT) \X (0..MaxT), MaxRanges)}

MergeInit ==
  /\ m_pc = "call"
  /\ m_in \in MergeInputs
  /\ m_out = <<>>

MergeCall ==
  /\ m_pc = "call"
  /\ m_out' = merge_ranges(m_in)
  /\ m_pc' = "done"
  /\ UNCHANGED <<m_in, selectVars, runDirVars, mainVars, utilVars>>

(***************************************************************************)
(* select_ranges                                                           *)
(***************************************************************************)
\* JSON values as Python holds them after json.loads
JInt(n)   == [k |-> "int",   v |-> n]
JFloat(n) == [k |-> "float", v |-> n]     \* the float n.0
JBool(n)  == [k |-> "bool",  v |-> n]     \* true is 1, false is 0: bool is an int
JStr      == [k |-> "str",   v |-> 0]
JNone     == [k |-> "none",  v |-> 0]     \* null, or dict.get of a missing key

\* a Segment as reindex_segments returns it (the text plays no part here)
Segment(i, st, en) == [id |-> i, start |-> st, end |-> en]

\* one element of data["highlights"]
Item(kind, sid, eid, pb, pa) ==
  [k |-> kind, start_id |-> sid, end_id |-> eid,
   pad_before |-> pb, pad_after |-> pa, score |-> 1, reason |-> "a"]

\* data.get("highlights")
JList(items) == [k |-> "list", v |-> items]
NoList(kind) == [k |-> kind, v |-> <<>>]

\* by_id = {seg.id: seg for seg in segments}: a later segment replaces an
\* earlier one with the same id
by_id(segs) ==
  [i \in {segs[j].id : j \in DOMAIN segs} |->
     segs[CHOOSE j \in DOMAIN segs :
            /\ segs[j].id = i
            /\ \A j2 \in DOMAIN segs : segs[j2].id = i => j2 <= j]]

\* isinstance(x, int): true of a bool as well
IsInstanceInt(x) == x.k \in {"int", "bool"}

\* x in by_id: dict lookup is by hash and equality, so 1.0 and True find
\* the key 1
InDict(x, by) == x.k \in {"int", "float", "bool"} /\ x.v \in DOMAIN by

\* mutant of ItemRange: the ids are not swapped when end_id < start_id
ItemRangeNoSwap(item, by) ==
  Range(by[item.start_id.v].start - item.pad_before,
        by[item.end_id.v].end + item.pad_after,
        item.score, item.reason)

\* the swap and the dict appended for a validated item
ItemRange(item, by) ==
  LET start_id == IF item.end_id.v < item.start_id.v
                  THEN item.end_id.v ELSE item.start_id.v
      end_id   == IF item.end_id.v < item.start_id.v
                  THEN item.start_id.v ELSE item.end_id.v
  IN Range(by[start_id].start - item.pad_before,
           by[end_id].end + item.pad_after,
           item.score, item.reason)

\* mutant of ItemPasses: the isinstance(..., int) test is missing
ItemPassesNoIntTest(item, by) ==
  /\ item.k = "dict"
  /\ InDict(item.start_id, by) /\ InDict(item.end_id, by)

\* the three 'continue' tests of the loop, negated
ItemPasses(item, by) ==
  /\ item.k = "dict"
  /\ IsInstanceInt(item.start_id) /\ IsInstanceInt(item.end_id)
  /\ InDict(item.start_id, by) /\ InDict(item.end_id, by)

\* for item in highlights
RECURSIVE SelectLoop(_, _, _)
SelectLoop(items, by, rgs) ==
  IF items = <<>> THEN rgs
  ELSE IF ItemPasses(Head(items), by)
       THEN SelectLoop(Tail(items), by, Append(rgs, ItemRange(Head(items), by)))
       ELSE SelectLoop(Tail(items), by, rgs)

Raised(m)      == [err |-> m, ranges |-> <<>>]
Returned(rngs) == [err |-> "", ranges |-> rngs]

\* mutant of select_ranges: the final 'if not ranges: raise' is missing
select_ranges_no_raise(d, segs) ==
  IF d.highlights.k # "list" \/ d.highlights.v = <<>>
  THEN Raised("ValueError: LLM output missing highlights list.")
  ELSE Returned(SelectLoop(d.highlights.v, by_id(segs), <<>>))

select_ranges(d, segs) ==
  IF d.highlights.k # "list" \/ d.highlights.v = <<>>
  THEN Raised("ValueError: LLM output missing highlights list.")
  ELSE LET rgs == SelectLoop(d.highlights.v, by_id(segs), <<>>)
       IN IF rgs = <<>>
          THEN Raised("ValueError: No valid highlight ranges produced.")
          ELSE Returned(rgs)

\* what parse_srt gives for a transcript of n segments: segment i lasts i
\* ticks and starts one tick after the end of segment i - 1 (id 0 as in
\* parse_srt_block)
RECURSIVE Layout(_, _)
Layout(n, from) ==
  IF n = 0 THEN <<>>
  ELSE Layout(n - 1, from) \o
       <<[id |-> 0, start |-> from + ((n - 1) * (n + 2)) \div 2,
          end |-> from + ((n - 1) * (n + 2)) \div 2 + n]>>

\* reindex_segments: ids 1..n in list order
reindex_segments(segs) ==
  [i \in DOMAIN segs |-> Segment(i, segs[i].start, segs[i].end)]

Transcripts == {reindex_segments(Layout(n, 0)) : n \in 0..MaxSegs}

\* the (pad_before, pad_after) pairs of the generated items
PadPairs == {<<0, 0>>, <<1, 2>>}

IdInts == 1..(MaxSegs + 1)
BadIds == {JStr, JNone, JFloat(1)}

ItemInputs ==
  {Item("dict", JInt(a), JInt(b), pad[1], pad[2]) :
       a \in IdInts, b \in IdInts, pad \in PadPairs}
  \cup {Item("dict", bad, JInt(1), 0, 0) : bad \in BadIds \cup {JBool(1)}}
  \cup {Item("dict", JInt(1), bad, 0, 0) : bad \in BadIds \cup {JBool(1)}}
  \cup {Item("str", JNone, JNone, 0, 0)}

\* the dict json.loads gives: its "highlights" value and whether it has any key
Data(hl, nonempty) == [highlights |-> hl, nonempty |-> nonempty]
EmptyDict == Data(NoList("none"), FALSE)

DataInputs ==
  {Data(JList(items), TRUE) : items \in SeqsUpTo(ItemInputs, MaxItems)}
  \cup {EmptyDict, Data(NoList("none"), TRUE), Data(NoList("str"), TRUE)}

SelectInit ==
  /\ s_pc = "call"
  /\ s_segments \in Transcripts
  /\ s_data \in DataInputs
  /\ s_out = Returned(<<>>)

SelectCall ==
  /\ s_pc = "call"
  /\ s_out' = select_ranges(s_data, s_segments)
  /\ s_pc' = "done"
  /\ UNCHANGED <<s_segments, s_data, mergeVars, runDirVars, mainVars, utilVars>>


(***************************************************************************)
(* create_run_dir                                                          *)
(*                                                                         *)
(* A candidate name is "openclaw-video-edit-<stamp>-<pid>-<token>"; two    *)
(* invocations in the same second with the same pid and token compute the  *)
(* same name, so every invocation draws its names from the same set.       *)
(* rundirs[n] is 0 when directory n does not exist, -1 when it existed      *)
(* before any invocation, and c when invocation c made it.                 *)
(***************************************************************************)
\* mutant of MaxAttempts: one pass more
SixAttempts == 5 + 1

MaxAttempts == 5                      \* for _ in range(5)
Names == 1..NumNames
Calls == {1, 2}                       \* the invocations of create_run_dir

\* mutant of MakedirsSucceeds: exist_ok=True
MakedirsExistOk(name, dirs) == TRUE

\* os.makedirs(run_dir, exist_ok=False) does not raise FileExistsError
MakedirsSucceeds(name, dirs) == dirs[name] = 0

RunDirInit ==
  /\ rundirs \in [Names -> {0, -1}]
  /\ r_pc = [c \in Calls |-> "start"]
  /\ r_try = [c \in Calls |-> 0]
  /\ r_cand = [c \in Calls |-> 0]
  /\ r_ret = [c \in Calls |-> 0]

\* os.makedirs(output_dir, exist_ok=True)
RunDirEnter(c) ==
  /\ r_pc[c] = "start"
  /\ r_pc' = [r_pc EXCEPT ![c] = "loop"]
  /\ UNCHANGED <<rundirs, r_try, r_cand, r_ret, mergeVars, selectVars, mainVars, utilVars>>

\* one pass of the loop head: stamp, token and run_dir are computed
RunDirPickName(c) ==
  /\ r_pc[c] = "loop"
  /\ r_try[c] < MaxAttempts
  /\ \E n \in Names : r_cand' = [r_cand EXCEPT ![c] = n]
  /\ r_pc' = [r_pc EXCEPT ![c] = "mkdir"]
  /\ UNCHANGED <<rundirs, r_try, r_ret, mergeVars, selectVars, mainVars, utilVars>>

\* os.makedirs(run_dir, exist_ok=False): the mkdir system call creates the
\* directory or fails, in one step
RunDirMkdir(c) ==
  /\ r_pc[c] = "mkdir"
  /\ r_try' = [r_try EXCEPT ![c] = @ + 1]
  /\ IF MakedirsSucceeds(r_cand[c], rundirs)
     THEN /\ rundirs' = IF rundirs[r_cand[c]] = 0
                        THEN [rundirs EXCEPT ![r_cand[c]] = c]
                        ELSE rundirs
          /\ r_ret' = [r_ret EXCEPT ![c] = r_cand[c]]
          /\ r_pc' = [r_pc EXCEPT ![c] = "done"]
     ELSE /\ r_pc' = [r_pc EXCEPT ![c] = "loop"]
          /\ UNCHANGED <<rundirs, r_ret>>
  /\ UNCHANGED <<r_cand, mergeVars, selectVars, mainVars, utilVars>>

\* the loop is exhausted: raise RuntimeError
RunDirGiveUp(c) ==
  /\ r_pc[c] = "loop"
  /\ r_try[c] >= MaxAttempts
  /\ r_pc' = [r_pc EXCEPT ![c] = "error"]
  /\ UNCHANGED <<rundirs, r_try, r_cand, r_ret, mergeVars, selectVars, mainVars, utilVars>>



(***************************************************************************)
(* main                                                                    *)
(*                                                                         *)
(* One run of the command.  trace records the external effects in the      *)
(* order they happen; rc is -1 while the run goes on, then the exit code   *)
(* (an uncaught exception, named in exc, ends the process with code 1).    *)
(***************************************************************************)
\* a subtitle file of the run directory, and the segments parse_srt reads
SrtFile(segs) == [present |-> TRUE, segs |-> segs]
NoSrtFile     == [present |-> FALSE, segs |-> <<>>]

\* llm-output.json: absent, not parsable, or the JSON of a dict
JsonFile(d)   == [k |-> "json", d |-> d]
NoJsonFile    == [k |-> "absent", d |-> EmptyDict]
BadJsonFile   == [k |-> "corrupt", d |-> EmptyDict]

\* an Optional[dict]
Some(d)  == [k |-> "dict", d |-> d]
NoneDict == [k |-> "none", d |-> EmptyDict]

\* read_json_file: any exception of open or json.load gives None
read_json_file(file) == IF file.k = "json" THEN Some(file.d) ELSE NoneDict

\* the truth value Python gives an Optional[dict]
Truthy(x) == x.k = "dict" /\ x.d.nonempty

\* parse_srt on a file of the run directory
parse_srt(file) == file.segs

\* mutant of ReuseTranscript: the file is not looked for
ReuseTranscriptUnchecked(a, f) == a.resume

\* args.resume and os.path.isfile(transcript_srt)
ReuseTranscript(a, f) == a.resume /\ f.transcript.present

\* args.resume and os.path.isfile(final_srt)
ReuseFinalSrt(a, f) == a.resume /\ f.final.present

\* mutant of CachedLlmOutput: the file is read without --resume too
CachedLlmOutputAlways(a, f) == read_json_file(f.llm)

\* read_json_file(llm_output_path) if args.resume else None
CachedLlmOutput(a, f) == IF a.resume THEN read_json_file(f.llm) ELSE NoneDict

\* mutant of ReuseLlmOutput: 'is not None' instead of the truth value
ReuseLlmOutputNotNone(x) == x.k = "dict"

\* if llm_output:
ReuseLlmOutput(x) == Truthy(x)

\* what whisper and the LLM may answer in a run
MainTranscripts == {Layout(0, 0), Layout(MaxSegs, 0)}

Valid(a, b, pad) == Item("dict", JInt(a), JInt(b), pad[1], pad[2])

MainData ==
  {EmptyDict,
   Data(NoList("none"), TRUE),
   Data(JList(<<>>), TRUE),
   Data(JList(<<Item("dict", JInt(MaxSegs + 1), JInt(1), 0, 0)>>), TRUE),
   Data(JList(<<Item("str", JNone, JNone, 0, 0), Item("dict", JStr, JInt(1), 0, 0)>>), TRUE),
   Data(JList(<<Valid(1, 1, <<0, 0>>)>>), TRUE),
   Data(JList(<<Valid(MaxSegs, MaxSegs, <<0, 0>>), Valid(1, 1, <<0, 0>>)>>), TRUE),
   Data(JList(<<Valid(1, 1, <<1, 2>>), Valid(MaxSegs, 1, <<0, 0>>)>>), TRUE)}

ArgSets ==
  [ok : {"ok"}, resume : BOOLEAN, run_dir : BOOLEAN, mode : {"concat", "separate"},
   subtitles : {"auto", "file", "nofile"}, bilingual : BOOLEAN]
  \cup [ok : {"missing", "noinput", "badtotal"}, resume : {TRUE}, run_dir : {FALSE},
        mode : {"concat"}, subtitles : {"auto"}, bilingual : {FALSE}]

\* a run directory left by an earlier run
RunDirStates ==
  [transcript : {NoSrtFile} \cup {SrtFile(t) : t \in MainTranscripts},
   llm : {NoJsonFile, BadJsonFile} \cup {JsonFile(d) : d \in MainData},
   final : {NoSrtFile} \cup {SrtFile(t) : t \in MainTranscripts}]

\* a run directory that create_run_dir has just made
FreshRunDir == [transcript |-> NoSrtFile, llm |-> NoJsonFile, final |-> NoSrtFile]

MainInit ==
  /\ args \in ArgSets
  /\ cached \in RunDirStates
  /\ args.run_dir \/ cached = FreshRunDir
  /\ files = cached
  /\ pc = "args" /\ rc = -1 /\ exc = "" /\ msg = ""
  /\ segments = <<>> /\ llm_output = EmptyDict /\ sel = Returned(<<>>)
  /\ ranges = <<>> /\ video_duration = JNone /\ clips = <<>>
  /\ final_srt = NoSrtFile /\ output_files = <<>>
  /\ trace = <<>> /\ printed = <<>>

Others == UNCHANGED <<mergeVars, selectVars, runDirVars, utilVars, cached, args>>

\* return code, or an uncaught exception e
Stop(code, e, m) == rc' = code /\ exc' = e /\ msg' = m /\ pc' = pc
Go(next) == pc' = next /\ UNCHANGED <<rc, exc, msg>>

\* mutant of ResumeWithoutRunDir: the test is missing
ResumeWithoutRunDirUnchecked(a) == FALSE

\* if args.resume and not args.run_dir
ResumeWithoutRunDir(a) == a.resume /\ ~a.run_dir

\* the checks of the command line
MainCheckArgs ==
  /\ pc = "args" /\ rc = -1
  /\ IF args.ok = "missing" THEN Stop(2, "", "Missing required args:")
     ELSE IF args.ok = "noinput" THEN Stop(1, "", "Input file not found")
     ELSE IF args.ok = "badtotal" THEN Stop(2, "", "Invalid duration")
     ELSE IF ResumeWithoutRunDir(args) THEN Stop(2, "", "--resume requires --run-dir")
     ELSE Go("rundir")
  /\ UNCHANGED <<files, segments, llm_output, sel, ranges, video_duration, clips,
                 final_srt, output_files, trace, printed>>
  /\ Others

\* the run directory: --run-dir is made if missing, otherwise create_run_dir
MainRunDir ==
  /\ pc = "rundir" /\ rc = -1
  /\ IF args.run_dir
     THEN /\ trace' = Append(trace, "makedirs:run_dir")
          /\ Go("transcribe")
     ELSE \E made \in BOOLEAN :
            /\ trace' = Append(trace, "create_run_dir")
            /\ IF made THEN Go("transcribe")
               ELSE Stop(1, "RuntimeError", "Unable to create a unique run directory.")
  /\ UNCHANGED <<files, segments, llm_output, sel, ranges, video_duration, clips,
                 final_srt, output_files, printed>>
  /\ Others

\* outcomes of run_whisper: the command fails, it writes no file, or it
\* writes a transcript
WhisperOutcomes ==
  {[k |-> "fail", segs |-> <<>>], [k |-> "nofile", segs |-> <<>>]}
  \cup {[k |-> "srt", segs |-> t] : t \in MainTranscripts}

\* the transcript of the input video
MainTranscribe ==
  /\ pc = "transcribe" /\ rc = -1
  /\ IF ReuseTranscript(args, files)
     THEN /\ Go("parse")
          /\ UNCHANGED <<files, trace>>
     ELSE \E out \in WhisperOutcomes :
            /\ trace' = Append(trace, "whisper:input")
            /\ IF out.k = "fail"
               THEN Stop(1, "CalledProcessError", "whisper") /\ UNCHANGED files
               ELSE IF out.k = "nofile"
               THEN /\ UNCHANGED files
                    /\ IF files.transcript.present THEN Go("parse")
                       ELSE Stop(1, "FileNotFoundError", "Whisper did not output")
               ELSE /\ files' = [files EXCEPT !.transcript = SrtFile(out.segs)]
                    /\ Go("parse")
  /\ UNCHANGED <<segments, llm_output, sel, ranges, video_duration, clips,
                 final_srt, output_files, printed>>
  /\ Others

\* segments = reindex_segments(parse_srt(transcript_srt))
MainParse ==
  /\ pc = "parse" /\ rc = -1
  /\ IF ~files.transcript.present
     THEN Stop(1, "FileNotFoundError", "transcript") /\ UNCHANGED segments
     ELSE /\ segments' = reindex_segments(parse_srt(files.transcript))
          /\ IF segments' = <<>>
             THEN Stop(1, "", "No segments parsed from transcript.")
             ELSE Go("llm")
  /\ UNCHANGED <<files, llm_output, sel, ranges, video_duration, clips,
                 final_srt, output_files, trace, printed>>
  /\ Others

\* outcomes of call_llm for the highlight prompt
LlmOutcomes == {[k |-> "fail", d |-> EmptyDict]} \cup {[k |-> "dict", d |-> d] : d \in MainData}

\* the cached llm-output.json, or call_llm and write_json_file
MainLlm ==
  /\ pc = "llm" /\ rc = -1
  /\ LET got == CachedLlmOutput(args, files)
     IN IF ReuseLlmOutput(got)
        THEN /\ llm_output' = got.d
             /\ Go("select")
             /\ UNCHANGED <<files, trace>>
        ELSE \E out \in LlmOutcomes :
               IF out.k = "fail"
               THEN /\ trace' = Append(trace, "llm:select")
                    /\ Stop(1, "CalledProcessError", "llm")
                    /\ UNCHANGED <<files, llm_output>>
               ELSE /\ trace' = trace \o <<"llm:select", "write:llm-output.json">>
                    /\ llm_output' = out.d
                    /\ files' = [files EXCEPT !.llm = JsonFile(out.d)]
                    /\ Go("select")
  /\ UNCHANGED <<segments, sel, ranges, video_duration, clips,
                 final_srt, output_files, printed>>
  /\ Others

\* ranges = merge_ranges(select_ranges(llm_output, segments))
MainSelect ==
  /\ pc = "select" /\ rc = -1
  /\ trace' = Append(trace, "select_ranges")
  /\ sel' = select_ranges(llm_output, segments)
  /\ IF sel'.err # ""
     THEN Stop(1, "ValueError", sel'.err) /\ UNCHANGED ranges
     ELSE /\ ranges' = merge_ranges(sel'.ranges)
          /\ IF ranges' = <<>>
             THEN Stop(1, "", "LLM produced no usable ranges.")
             ELSE Go("probe")
  /\ UNCHANGED <<files, segments, llm_output, video_duration, clips,
                 final_srt, output_files, printed>>
  /\ Others

\* what ffprobe may report: nothing usable (None), or a duration in ticks
VideoDurations == {JNone, JFloat(0), JFloat(MaxSegs + 1), JFloat(10 * MaxSegs)}

\* max(0.0, min(x, video_duration)) on start and end
Clamp(item, d) ==
  [item EXCEPT !.start = Max2(0, Min2(item.start, d)),
               !.end   = Max2(0, Min2(item.end, d))]

\* video_duration = find_video_duration(input_path), and the clamp
MainProbe ==
  /\ pc = "probe" /\ rc = -1
  /\ \E d \in VideoDurations :
       /\ video_duration' = d
       /\ ranges' = IF d.k = "none" THEN ranges
                    ELSE [i \in DOMAIN ranges |-> Clamp(ranges[i], d.v)]
  /\ trace' = Append(trace, "ffprobe")
  /\ Go("clip")
  /\ UNCHANGED <<files, segments, llm_output, sel, clips, final_srt, output_files, printed>>
  /\ Others

MinClip == 1        \* 0.1 second: a tick is a tenth of a second

\* mutant of ClipOf: the duration is the length of the range, without a floor
ClipOfUnfloored(item) ==
  LET start == Max2(0, item.start)
  IN [start |-> start, duration |-> item.end - start]

\* the -ss and -t arguments clip_segments computes for one range
ClipOf(item) ==
  LET start    == Max2(0, item.start)
      end      == Max2(start + MinClip, item.end)
      duration == Max2(MinClip, end - start)
  IN [start |-> start, duration |-> duration]

\* clip_segments: one ffmpeg run per range; after the last one, the test of
\* 'if not clips' and the choice of the output mode
MainClip ==
  /\ pc = "clip" /\ rc = -1
  /\ IF Len(clips) < Len(ranges)
     THEN \E ok \in BOOLEAN :
            /\ trace' = Append(trace, "ffmpeg:clip")
            /\ IF ok
               THEN /\ clips' = Append(clips, ClipOf(ranges[Len(clips) + 1]))
                    /\ Go("clip")
               ELSE /\ Stop(1, "CalledProcessError", "ffmpeg")
                    /\ UNCHANGED clips
     ELSE /\ UNCHANGED <<trace, clips>>
          /\ IF clips = <<>> THEN Stop(1, "", "No clips produced.")
             ELSE IF args.mode = "separate" THEN Go("separate")
             ELSE Go("concat")
  /\ UNCHANGED <<files, segments, llm_output, sel, ranges, video_duration,
                 final_srt, output_files, printed>>
  /\ Others

ChunkSize == 50     \* chunk_size of translate_segments

\* the call_llm requests translate_segments makes for n segments
TranslateCalls(n) == (n + ChunkSize - 1) \div ChunkSize

Times(n, e) == [i \in 1..n |-> e]

\* outcomes of burn_subtitles: no subtitles filter, ffmpeg fails, or done
BurnOutcomes == {"nofilter", "fail", "ok"}

\* mutant of OutputFile: every clip is burnt into the output path itself
OutputFileShared(i) == [base |-> "output_path", n |-> 0]

\* the output file of clip i, "<base>-0i<ext>", and the one of concat mode
OutputFile(i) == [base |-> "output_path", n |-> i]

\* process_separate_mode: one clip per step (whisper, translation, burn);
\* after the last clip the output files are printed
MainSeparate ==
  /\ pc = "separate" /\ rc = -1
  /\ IF Len(output_files) < Len(clips)
     THEN /\ UNCHANGED printed
          /\ \E w \in WhisperOutcomes, tOk \in BOOLEAN, b \in BurnOutcomes :
            LET i     == Len(output_files) + 1
                segs  == reindex_segments(w.segs)
                calls == IF args.bilingual /\ segs # <<>>
                         THEN TranslateCalls(Len(segs)) ELSE 0
            IN IF w.k # "srt"
               THEN /\ trace' = Append(trace, "whisper:clip")
                    /\ Stop(1, IF w.k = "fail" THEN "CalledProcessError"
                               ELSE "FileNotFoundError", "whisper")
                    /\ UNCHANGED output_files
               ELSE IF calls > 0 /\ ~tOk
               THEN /\ trace' = trace \o <<"whisper:clip", "llm:translate">>
                    /\ Stop(1, "CalledProcessError", "llm")
                    /\ UNCHANGED output_files
               ELSE IF b = "nofilter"
               THEN /\ trace' = trace \o <<"whisper:clip">> \o Times(calls, "llm:translate")
                    /\ Stop(1, "RuntimeError", "ffmpeg build lacks the subtitles filter")
                    /\ UNCHANGED output_files
               ELSE /\ trace' = trace \o <<"whisper:clip">> \o Times(calls, "llm:translate")
                                \o <<"ffmpeg:burn">>
                    /\ IF b = "fail"
                       THEN Stop(1, "CalledProcessError", "ffmpeg") /\ UNCHANGED output_files
                       ELSE output_files' = Append(output_files, OutputFile(i))
                            /\ Go("separate")
     ELSE /\ printed' = output_files
          /\ rc' = 0 /\ pc' = "done"
          /\ UNCHANGED <<exc, msg, trace, output_files>>
  /\ UNCHANGED <<files, segments, llm_output, sel, ranges, video_duration, clips, final_srt>>
  /\ Others

\* concat_clips
MainConcat ==
  /\ pc = "concat" /\ rc = -1
  /\ trace' = Append(trace, "ffmpeg:concat")
  /\ \E ok \in BOOLEAN :
       IF ok THEN Go("subtitles") ELSE Stop(1, "CalledProcessError", "ffmpeg")
  /\ UNCHANGED <<files, segments, llm_output, sel, ranges, video_duration, clips,
                 final_srt, output_files, printed>>
  /\ Others

\* final_srt: the cached or a new transcript of the concatenated video
\* (--subtitles auto), or the file --subtitles names
MainSubtitles ==
  /\ pc = "subtitles" /\ rc = -1
  /\ IF args.subtitles = "auto"
     THEN IF ReuseFinalSrt(args, files)
          THEN /\ final_srt' = files.final
               /\ Go("bilingual")
               /\ UNCHANGED <<files, trace>>
          ELSE \E out \in WhisperOutcomes :
                 /\ trace' = Append(trace, "whisper:concat")
                 /\ IF out.k = "fail"
                    THEN Stop(1, "CalledProcessError", "whisper")
                         /\ UNCHANGED <<files, final_srt>>
                    ELSE IF out.k = "nofile"
                    THEN /\ UNCHANGED files
                         /\ IF files.final.present
                            THEN final_srt' = files.final /\ Go("bilingual")
                            ELSE Stop(1, "FileNotFoundError", "Whisper did not output")
                                 /\ UNCHANGED final_srt
                    ELSE /\ files' = [files EXCEPT !.final = SrtFile(out.segs)]
                         /\ final_srt' = SrtFile(out.segs)
                         /\ Go("bilingual")
     ELSE /\ UNCHANGED <<files, trace>>
          /\ IF args.subtitles = "nofile"
             THEN Stop(1, "", "Subtitle file not found") /\ UNCHANGED final_srt
             ELSE \E t \in MainTranscripts :
                    final_srt' = SrtFile(t) /\ Go("bilingual")
  /\ UNCHANGED <<segments, llm_output, sel, ranges, video_duration, clips,
                 output_files, printed>>
  /\ Others

\* the bilingual subtitles: parse final_srt, translate_segments, write_srt
MainBilingual ==
  /\ pc = "bilingual" /\ rc = -1
  /\ IF ~args.bilingual
     THEN Go("burn") /\ UNCHANGED trace
     ELSE LET final_segments == reindex_segments(parse_srt(final_srt))
          IN IF final_segments = <<>>
             THEN Stop(1, "", "No segments parsed from final subtitles.")
                  /\ UNCHANGED trace
             ELSE \E ok \in BOOLEAN :
                    IF ok
                    THEN /\ trace' = trace
                                \o Times(TranslateCalls(Len(final_segments)), "llm:translate")
                                \o <<"write:bilingual.srt">>
                         /\ Go("burn")
                    ELSE /\ trace' = Append(trace, "llm:translate")
                         /\ Stop(1, "CalledProcessError", "llm")
  /\ UNCHANGED <<files, segments, llm_output, sel, ranges, video_duration, clips,
                 final_srt, output_files, printed>>
  /\ Others

\* mutant of MainBurn: the output path is printed before the burn is run
MainBurnPrintsFirst ==
  /\ pc = "burn" /\ rc = -1
  /\ printed' = <<OutputFile(0)>>
  /\ \E b \in BurnOutcomes :
       IF b = "nofilter"
       THEN /\ Stop(1, "RuntimeError", "ffmpeg build lacks the subtitles filter")
            /\ UNCHANGED trace
       ELSE /\ trace' = Append(trace, "ffmpeg:burn")
            /\ IF b = "fail"
               THEN Stop(1, "CalledProcessError", "ffmpeg")
               ELSE /\ rc' = 0 /\ pc' = "done"
                    /\ UNCHANGED <<exc, msg>>
  /\ UNCHANGED <<files, segments, llm_output, sel, ranges, video_duration, clips,
                 final_srt, output_files>>
  /\ Others

\* burn_subtitles on the concatenated video, then the output path is printed
MainBurn ==
  /\ pc = "burn" /\ rc = -1
  /\ \E b \in BurnOutcomes :
       IF b = "nofilter"
       THEN /\ Stop(1, "RuntimeError", "ffmpeg build lacks the subtitles filter")
            /\ UNCHANGED <<trace, printed>>
       ELSE /\ trace' = Append(trace, "ffmpeg:burn")
            /\ IF b = "fail"
               THEN Stop(1, "CalledProcessError", "ffmpeg") /\ UNCHANGED printed
               ELSE /\ printed' = <<OutputFile(0)>>
                    /\ rc' = 0 /\ pc' = "done"
                    /\ UNCHANGED <<exc, msg>>
  /\ UNCHANGED <<files, segments, llm_output, sel, ranges, video_duration, clips,
                 final_srt, output_files>>
  /\ Others

MainIdle ==
  /\ args = [ok |-> "missing", resume |-> TRUE, run_dir |-> FALSE, mode |-> "concat",
             subtitles |-> "auto", bilingual |-> FALSE]
  /\ cached = FreshRunDir /\ files = FreshRunDir
  /\ pc = "idle" /\ rc = -1 /\ exc = "" /\ msg = ""
  /\ segments = <<>> /\ llm_output = EmptyDict /\ sel = Returned(<<>>)
  /\ ranges = <<>> /\ video_duration = JNone /\ clips = <<>>
  /\ final_srt = NoSrtFile /\ output_files = <<>>
  /\ trace = <<>> /\ printed = <<>>

(***************************************************************************)
(* Python floats                                                           *)
(*                                                                         *)
(* A float is an IEEE double: 53 significant bits, round to nearest, ties  *)
(* to even.  A non-negative double below 2^31 whose lowest bit is at least *)
(* 2^-FracBits is held exactly, as its integer part i and its fraction f:  *)
(* four limbs of 16 bits, f[1] the highest; bit j of the fraction is worth *)
(* 2^-j.  neg marks a value below zero.                                    *)
(***************************************************************************)
Precision == 53
LimbBits  == 4 * 4
Limbs     == 1..4
Base      == 2 ^ LimbBits
FracBits  == LimbBits * 4          \* 0.001 has its lowest bit at 2^-62

Float(n, limbs) == [neg |-> FALSE, i |-> n, f |-> limbs]
ZeroLimbs == [k \in Limbs |-> 0]
FloatOfInt(n) == Float(n, ZeroLimbs)

\* the number of binary digits of the integer n
RECURSIVE BitLength(_)
BitLength(n) == IF n = 0 THEN 0 ELSE 1 + BitLength(n \div 2)

\* the limb that holds bit j of a fraction, and what the bit is worth there
LimbOf(j)   == ((j - 1) \div LimbBits) + 1
WeightOf(j) == 2 ^ (LimbBits - 1 - ((j - 1) % LimbBits))

Bit(f, j) == (f[LimbOf(j)] \div WeightOf(j)) % 2

\* some bit after bit j is set
AnyBitAfter(f, j) ==
  \/ f[LimbOf(j)] % WeightOf(j) # 0
  \/ \E k \in Limbs : k > LimbOf(j) /\ f[k] # 0

\* the bits after bit j are cleared
ClearedAfter(f, j) ==
  [k \in Limbs |-> IF k < LimbOf(j) THEN f[k]
                   ELSE IF k = LimbOf(j) THEN f[k] - (f[k] % WeightOf(j))
                   ELSE 0]

\* the limbs of the fraction r/d, for r < d, and the remainder left
RECURSIVE Expand(_, _, _)
Expand(r, d, n) ==
  IF n = 0 THEN <<>>
  ELSE <<(r * Base) \div d>> \o Expand((r * Base) % d, d, n - 1)

RECURSIVE FinalRem(_, _, _)
FinalRem(r, d, n) == IF n = 0 THEN r ELSE FinalRem((r * Base) % d, d, n - 1)

\* position in the fraction of the lowest of the 53 significant bits of x
\* (0 when x = 0)
LowestKept(x) ==
  IF x.i > 0 THEN Precision - BitLength(x.i)
  ELSE IF \E k \in Limbs : x.f[k] # 0
       THEN LET k == CHOOSE k \in Limbs : x.f[k] # 0 /\ \A k2 \in 1..(k - 1) : x.f[k2] = 0
            IN LimbBits * (k - 1) + (LimbBits + 1 - BitLength(x.f[k])) + Precision - 1
       ELSE 0

\* x plus 2^-p, for x with no bit after bit p
AddUlp(x, p) ==
  LET top       == LimbOf(p)
      over      == x.f[top] + WeightOf(p) >= Base
      CarryTo(k) == over /\ \A k2 \in (k + 1)..(top - 1) : x.f[k2] = Base - 1
  IN IF p = 0 THEN [x EXCEPT !.i = x.i + 1]
     ELSE [x EXCEPT
             !.i = IF CarryTo(0) THEN x.i + 1 ELSE x.i,
             !.f = [k \in Limbs |->
                      IF k > top THEN x.f[k]
                      ELSE IF k = top THEN (x.f[k] + WeightOf(p)) % Base
                      ELSE IF CarryTo(k) THEN (x.f[k] + 1) % Base
                      ELSE x.f[k]]]

\* the double nearest to x (plus something below 2^-FracBits when sticky),
\* ties to even: the rounding every float operation ends with
RoundDouble(x, sticky) ==
  LET p == LowestKept(x)
  IN IF p = 0 \/ p >= FracBits THEN x
     ELSE LET guard == Bit(x.f, p + 1)
              rest  == sticky \/ AnyBitAfter(x.f, p + 1)
              kept  == [x EXCEPT !.f = ClearedAfter(x.f, p)]
          IN IF guard = 1 /\ (rest \/ Bit(x.f, p) = 1) THEN AddUlp(kept, p) ELSE kept

\* a / d for non-negative integers: the double nearest to the quotient
FloatDiv(a, d) ==
  LET e == Expand(a % d, d, FracBits \div LimbBits)
  IN RoundDouble(Float(a \div d, [k \in Limbs |-> e[k]]),
                 FinalRem(a % d, d, FracBits \div LimbBits) # 0)

\* n + x for an integer n and a float x
FloatAddInt(n, x) == RoundDouble(Float(n + x.i, x.f), FALSE)

\* x - int(x)
FloatFraction(x) == RoundDouble(Float(0, x.f), FALSE)

\* the carry into limb k of f * c, coming from the limbs after it
RECURSIVE CarryInto(_, _, _)
CarryInto(f, c, k) ==
  IF k = FracBits \div LimbBits THEN 0
  ELSE (f[k + 1] * c + CarryInto(f, c, k + 1)) \div Base

\* the exact product x * c of a float x and an integer c
TimesInt(x, c) ==
  Float(x.i * c + CarryInto(x.f, c, 0),
        [k \in Limbs |-> (x.f[k] * c + CarryInto(x.f, c, k)) % Base])

\* x * c for a float x and an integer c
FloatMulInt(x, c) == RoundDouble(TimesInt(x, c), FALSE)

\* round(x): the nearest integer, ties to even
PyRound(x) ==
  IF Bit(x.f, 1) = 1 /\ (AnyBitAfter(x.f, 1) \/ x.i % 2 = 1)
  THEN x.i + 1 ELSE x.i

\* int(x)
PyInt(x) == x.i

(***************************************************************************)
(* parse_timestamp, format_timestamp, format_timestamp_srt                 *)
(*                                                                         *)
(* A string is a sequence of one-character strings.                        *)
(***************************************************************************)
DigitChars == <<"0", "1", "2", "3", "4", "5", "6", "7", "8", "9">>
IsDigit(c) == \E d \in 1..10 : DigitChars[d] = c
DigitValue(c) == (CHOOSE d \in 1..10 : DigitChars[d] = c) - 1

\* str(n) for n >= 0
RECURSIVE Decimal(_)
Decimal(n) ==
  IF n < 10 THEN <<DigitChars[n + 1]>>
  ELSE Decimal(n \div 10) \o <<DigitChars[(n % 10) + 1]>>

\* f"{n:0wd}": zeros are put in front up to the width w, nothing is cut
RECURSIVE ZeroPad(_, _)
ZeroPad(str, w) == IF Len(str) >= w THEN str ELSE ZeroPad(<<"0">> \o str, w)

Padded(n, w) == ZeroPad(Decimal(n), w)

\* int(group) for a group of digits
RECURSIVE IntOf(_)
IntOf(str) ==
  IF str = <<>> THEN 0
  ELSE 10 * IntOf(SubSeq(str, 1, Len(str) - 1)) + DigitValue(str[Len(str)])

\* TIME_RE.match(value): dd:dd:dd[,.]ddd at the start of the string
TimeReMatches(str) ==
  /\ Len(str) >= 12
  /\ \A j \in {1, 2, 4, 5, 7, 8, 10, 11, 12} : IsDigit(str[j])
  /\ str[3] = ":" /\ str[6] = ":"
  /\ str[9] \in {",", "."}

\* a returned float, or ValueError
Value(x) == [err |-> "", x |-> x]
ValueError(m) == [err |-> m, x |-> FloatOfInt(0)]

parse_timestamp(str) ==
  IF ~TimeReMatches(str) THEN ValueError("Invalid timestamp")
  ELSE LET h  == IntOf(SubSeq(str, 1, 2))
           m  == IntOf(SubSeq(str, 4, 5))
           s  == IntOf(SubSeq(str, 7, 8))
           ms == IntOf(SubSeq(str, 10, 12))
       IN Value(FloatAddInt(h * 3600 + m * 60 + s, FloatDiv(ms, 1000)))

\* mutant of format_timestamp: int() where the code has int(round())
format_timestamp_truncating(seconds) ==
  LET sec   == IF seconds.neg THEN FloatOfInt(0) ELSE seconds
      ms    == PyInt(FloatMulInt(FloatFraction(sec), 1000))
      total == PyInt(sec)
      h     == total \div 3600
      m     == (total % 3600) \div 60
      s     == total % 60
  IN Padded(h, 2) \o <<":">> \o Padded(m, 2) \o <<":">> \o Padded(s, 2)
       \o <<".">> \o Padded(ms, 3)

format_timestamp(seconds) ==
  LET sec   == IF seconds.neg THEN FloatOfInt(0) ELSE seconds
      ms    == PyRound(FloatMulInt(FloatFraction(sec), 1000))
      total == PyInt(sec)
      h     == total \div 3600
      m     == (total % 3600) \div 60
      s     == total % 60
  IN Padded(h, 2) \o <<":">> \o Padded(m, 2) \o <<":">> \o Padded(s, 2)
       \o <<".">> \o Padded(ms, 3)

\* str.replace(".", ",")
ReplaceDot(str) == [j \in DOMAIN str |-> IF str[j] = "." THEN "," ELSE str[j]]

format_timestamp_srt(seconds) == ReplaceDot(format_timestamp(seconds))

\* the times the codec is tried on: hh:mm:ss.mmm for every millisecond of the
\* seconds 0..MaxSec, in the first and the last minute and hour the format
\* has room for
CodecInputs ==
  [h : {0, 99}, m : {0, 59}, s : 0..MaxSec, ms : 0..999]

\* the whole number of milliseconds of such a time
TotalMs(c) == ((c.h * 60 + c.m) * 60 + c.s) * 1000 + c.ms

\* the float a whole number of milliseconds is: the double nearest n/1000
FloatOfMs(n) == FloatDiv(n, 1000)

\* the well-formed string 'HH:MM:SS.mmm' of such a time
StringOf(c) ==
  Padded(c.h, 2) \o <<":">> \o Padded(c.m, 2) \o <<":">> \o Padded(c.s, 2)
    \o <<".">> \o Padded(c.ms, 3)

NoCodecOut == [formatted |-> <<>>, parsed |-> Value(FloatOfInt(0)),
               parsed_srt |-> Value(FloatOfInt(0)), reformatted |-> <<>>]

CodecInit ==
  /\ c_pc = "call"
  /\ c_in \in CodecInputs
  /\ c_out = NoCodecOut

\* the two round trips on one time: t -> string -> float, and
\* string -> float -> string
CodecCall ==
  /\ c_pc = "call"
  /\ LET t == FloatOfMs(TotalMs(c_in))
         p == parse_timestamp(StringOf(c_in))
     IN c_out' = [formatted   |-> format_timestamp(t),
                  parsed      |-> parse_timestamp(format_timestamp(t)),
                  parsed_srt  |-> parse_timestamp(format_timestamp_srt(t)),
                  reformatted |-> IF p.err = "" THEN format_timestamp(p.x) ELSE <<>>]
  /\ c_pc' = "done"
  /\ UNCHANGED <<c_in, mergeVars, selectVars, runDirVars, mainVars, notCodec>>

CodecIdle == c_pc = "idle" /\ c_in = [h |-> 0, m |-> 0, s |-> 0, ms |-> 0]
             /\ c_out = NoCodecOut

(***************************************************************************)
(* parse_srt, parse_srt_block                                              *)
(*                                                                         *)
(* A subtitle file is a sequence of lines.  A line is blank (nothing but   *)
(* white space), an index (digits only, after strip), a time line (it      *)
(* holds 'hh:mm:ss,mmm --> hh:mm:ss,mmm') or text (anything else, such as  *)
(* a cue text, or an index with a byte order mark or a dot).               *)
(***************************************************************************)
BlankLine      == [k |-> "blank", start |-> 0, end |-> 0]
IndexLine      == [k |-> "index", start |-> 0, end |-> 0]
TextLine       == [k |-> "text",  start |-> 0, end |-> 0]
TimeLine(a, b) == [k |-> "time",  start |-> a, end |-> b]

\* parse_srt_block: no segment (None), or the segment of the block
parse_srt_block(lines) ==
  IF Len(lines) < 2 THEN <<>>
  ELSE LET time_line == IF lines[1].k = "index" THEN lines[2] ELSE lines[1]
       IN IF time_line.k # "time" THEN <<>>
          ELSE <<Segment(0, time_line.start, time_line.end)>>

\* the loop of parse_srt over the lines left, with the block gathered so far
RECURSIVE ParseLines(_, _, _)
ParseLines(lines, block_lines, segs) ==
  IF lines = <<>>
  THEN IF block_lines # <<>> THEN segs \o parse_srt_block(block_lines) ELSE segs
  ELSE IF Head(lines).k = "blank"
       THEN IF block_lines # <<>>
            THEN ParseLines(Tail(lines), <<>>, segs \o parse_srt_block(block_lines))
            ELSE ParseLines(Tail(lines), <<>>, segs)
       ELSE ParseLines(Tail(lines), Append(block_lines, Head(lines)), segs)

\* parse_srt on the lines of the file
parse_srt_file(lines) == ParseLines(lines, <<>>, <<>>)

\* the files: every sequence of up to MaxLines lines; the time line at
\* position j runs from 10 j to 10 j + 5, or backwards in an odd position
LineAt(kind, j) ==
  IF kind = "time"
  THEN (IF j % 2 = 0 THEN TimeLine(10 * j, 10 * j + 5) ELSE TimeLine(10 * j, 10 * j - 5))
  ELSE [k |-> kind, start |-> 0, end |-> 0]

SrtFiles ==
  {[j \in DOMAIN kinds |-> LineAt(kinds[j], j)] :
     kinds \in SeqsUpTo({"blank", "index", "time", "text"}, MaxLines)}

ParseInit ==
  /\ p_pc = "call"
  /\ p_file \in SrtFiles
  /\ p_out = <<>>

\* reindex_segments(parse_srt(path))
ParseCall ==
  /\ p_pc = "call"
  /\ p_out' = reindex_segments(parse_srt_file(p_file))
  /\ p_pc' = "done"
  /\ UNCHANGED <<p_file, mergeVars, selectVars, runDirVars, mainVars, notParse>>

ParseIdle == p_pc = "idle" /\ p_file = <<>> /\ p_out = <<>>

(***************************************************************************)
(* translate_segments                                                      *)
(*                                                                         *)
(* The segments are the reindexed ones main passes, known by their ids.    *)
(* t_requests holds, per call_llm request made, the ids in its payload.    *)
(***************************************************************************)
\* mutant of Chunk: the slice is one segment too long
ChunkOneMore(segs, i) == SubSeq(segs, i + 1, Min2(i + ChunkSize + 1, Len(segs)))

\* chunk = segments[i : i + chunk_size]
Chunk(segs, i) == SubSeq(segs, i + 1, Min2(i + ChunkSize, Len(segs)))

\* what call_llm may give for a chunk: an exception, a dict without a
\* "translations" list, or a list of items {"id", "text"}: one per segment,
\* one for the first segment only, or one whose text is all blanks
Responses(chunk) ==
  {[k |-> "fail", items |-> <<>>], [k |-> "nolist", items |-> <<>>],
   [k |-> "list", items |-> [j \in DOMAIN chunk |-> [id |-> chunk[j], text |-> "t"]]],
   [k |-> "list", items |-> <<[id |-> chunk[1], text |-> "t"]>>],
   [k |-> "list", items |-> <<[id |-> chunk[1], text |-> " "]>>]}

\* text.strip()
Strip(text) == IF text = " " THEN "" ELSE text

\* translations[seg_id] = text.strip() for the items of one response
Translated(translations, items) ==
  [id \in DOMAIN translations \cup {items[j].id : j \in DOMAIN items} |->
     IF \E j \in DOMAIN items : items[j].id = id
     THEN Strip(items[CHOOSE j \in DOMAIN items :
                        /\ items[j].id = id
                        /\ \A j2 \in DOMAIN items : items[j2].id = id => j2 <= j].text)
     ELSE translations[id]]

NoTranslations == [id \in {} |-> ""]

TranslateInit ==
  /\ t_pc = "loop"
  /\ \E n \in 0..MaxTranslate : t_segments = [j \in 1..n |-> j]
  /\ t_i = 0
  /\ t_requests = <<>>
  /\ t_translations = NoTranslations

\* one pass of 'for i in range(0, len(segments), chunk_size)'
TranslateRequest ==
  /\ t_pc = "loop"
  /\ t_i < Len(t_segments)
  /\ LET chunk == Chunk(t_segments, t_i)
     IN /\ t_requests' = Append(t_requests, chunk)
        /\ \E data \in Responses(chunk) :
             IF data.k = "fail"
             THEN t_pc' = "error" /\ UNCHANGED <<t_i, t_translations>>
             ELSE /\ t_pc' = "loop"
                  /\ t_i' = t_i + ChunkSize
                  /\ t_translations' = IF data.k = "list"
                                       THEN Translated(t_translations, data.items)
                                       ELSE t_translations
  /\ UNCHANGED <<t_segments, mergeVars, selectVars, runDirVars, mainVars, notTranslate>>

\* the range is exhausted: return translations
TranslateReturn ==
  /\ t_pc = "loop"
  /\ t_i >= Len(t_segments)
  /\ t_pc' = "done"
  /\ UNCHANGED <<t_segments, t_i, t_requests, t_translations,
                 mergeVars, selectVars, runDirVars, mainVars, notTranslate>>

TranslateIdle ==
  /\ t_pc = "idle" /\ t_segments = <<>> /\ t_i = 0 /\ t_requests = <<>>
  /\ t_translations = NoTranslations

(***************************************************************************)
(* write_srt                                                               *)
(*                                                                         *)
(* The file written is the sequence of its lines, each a string; a text    *)
(* is one of the strings "a", "t", " " and "".                             *)
(***************************************************************************)
\* a Segment with its text; start and end are floats
TextSegment(i, st, en, tx) == [id |-> i, start |-> st, end |-> en, text |-> tx]

\* translations: Optional[dict]
NoMap    == [k |-> "none", d |-> NoTranslations]
MapOf(d) == [k |-> "dict", d |-> d]

\* the characters of a text
Chars(text) == IF text = "" THEN <<>> ELSE <<text>>

Arrow == <<" ", "-", "-", ">", " ">>

\* mutant of TextOf: a segment whose translation is missing is given no text
TextOfTranslatedOnly(seg, translations) ==
  LET text       == Strip(seg.text)
      translated == IF translations.k = "dict" /\ seg.id \in DOMAIN translations.d
                    THEN translations.d[seg.id] ELSE ""
  IN IF translated # "" THEN <<Chars(text), Chars(translated)>> ELSE <<>>

\* the lines of 'text' for one segment: seg.text.strip(), and under it
\* translations.get(seg.id, "") when that is not empty
TextOf(seg, translations) ==
  LET text       == Strip(seg.text)
      translated == IF translations.k = "dict" /\ seg.id \in DOMAIN translations.d
                    THEN translations.d[seg.id] ELSE ""
  IN IF translated # "" THEN <<Chars(text), Chars(translated)>> ELSE <<Chars(text)>>

\* the three handle.write calls for the segment at position idx
BlockOf(idx, seg, translations) ==
  <<Decimal(idx),
    format_timestamp_srt(seg.start) \o Arrow \o format_timestamp_srt(seg.end)>>
  \o TextOf(seg, translations) \o << <<>> >>

\* for idx, seg in enumerate(segments, start=1)
RECURSIVE WriteLoop(_, _, _)
WriteLoop(segs, idx, translations) ==
  IF idx > Len(segs) THEN <<>>
  ELSE BlockOf(idx, segs[idx], translations) \o WriteLoop(segs, idx + 1, translations)

write_srt(segs, translations) == WriteLoop(segs, 1, translations)

\* the segments written: ids that need not be positions, times that are whole
\* milliseconds, a text that is "a" or blanks only
WriteSegments ==
  {TextSegment(i, FloatOfMs(t[1]), FloatOfMs(t[2]), tx) :
     i \in 1..3, t \in {<<0, 1500>>, <<1500, 61001>>}, tx \in {"a", " "}}

WriteMaps ==
  {NoMap, MapOf(NoTranslations), MapOf([id \in {1} |-> "t"]),
   MapOf([id \in {1, 2} |-> IF id = 1 THEN "" ELSE "t"])}

WriteInit ==
  /\ w_pc = "call"
  /\ w_segments \in SeqsUpTo(WriteSegments, MaxWrite)
  /\ w_translations \in WriteMaps
  /\ w_out = <<>>

WriteCall ==
  /\ w_pc = "call"
  /\ w_out' = write_srt(w_segments, w_translations)
  /\ w_pc' = "done"
  /\ UNCHANGED <<w_segments, w_translations,
                 mergeVars, selectVars, runDirVars, mainVars, notWrite>>

WriteIdle == w_pc = "idle" /\ w_segments = <<>> /\ w_translations = NoMap /\ w_out = <<>>

(***************************************************************************)
(* DoubaoASRClient._query_result (doubao_asr.py).  Time is in whole        *)
(* seconds and counted from start_time.                                    *)
(***************************************************************************)
poll_interval == 3        \* seconds slept between two queries
max_wait == 300           \* seconds after which a blocking query gives up
request_timeout == 30     \* timeout of requests.get

\* how long a request may take
RequestTimes == {0, request_timeout}

\* result = response.json(): a dict with or without "code" and "utterances"
Response(code, utterances) == [k |-> "dict", code |-> code, utterances |-> utterances]

\* requests.get or response.json() raises instead
NoResponse == [k |-> "none", code |-> JNone, utterances |-> FALSE]

AsrResponses ==
  {Response(c, u) : c \in {JInt(0), JInt(1), JNone, JBool(0), JStr}, u \in BOOLEAN}

\* x == 0 in Python: the int 0, the float 0.0 or False
IsZero(x) == x.k \in {"int", "float", "bool"} /\ x.v = 0

\* mutant of QueryFailed: a response that has utterances is not looked at
QueryFailedUnlessDone(result) == ~IsZero(result.code) /\ ~result.utterances

\* if result.get("code") != 0
QueryFailed(result) == ~IsZero(result.code)

\* if "utterances" in result
Done(result) == result.utterances

\* mutant of TimedOut: the limit itself counts as exceeded
TimedOutAtLimit(elapsed) == elapsed >= max_wait

\* if elapsed > max_wait
TimedOut(elapsed) == elapsed > max_wait

AsrInit ==
  /\ a_pc = "query" /\ a_blocking \in BOOLEAN
  /\ a_now = 0 /\ a_queries = 0
  /\ a_result = NoResponse /\ a_exc = ""

\* one pass of the loop up to time.sleep: the request, the tests of the
\* response, and the test of the elapsed time
AsrQuery ==
  /\ a_pc = "query"
  /\ a_queries' = a_queries + 1
  /\ \E dt \in RequestTimes, r \in AsrResponses \cup {NoResponse} :
       /\ a_now' = a_now + dt
       /\ a_result' = r
       /\ IF r = NoResponse
          THEN a_pc' = "raised" /\ a_exc' = "RequestException"
          ELSE IF QueryFailed(r)
          THEN a_pc' = "raised" /\ a_exc' = "Query failed"
          ELSE IF Done(r) \/ ~a_blocking
          THEN a_pc' = "returned" /\ a_exc' = ""
          ELSE IF TimedOut(a_now')
          THEN a_pc' = "raised" /\ a_exc' = "Query timeout"
          ELSE a_pc' = "sleep" /\ a_exc' = ""
  /\ UNCHANGED <<a_blocking, mergeVars, selectVars, runDirVars, mainVars, notAsr>>

\* time.sleep(poll_interval)
AsrSleep ==
  /\ a_pc = "sleep"
  /\ a_now' = a_now + poll_interval
  /\ a_pc' = "query"
  /\ UNCHANGED <<a_blocking, a_queries, a_result, a_exc,
                 mergeVars, selectVars, runDirVars, mainVars, notAsr>>

AsrIdle ==
  /\ a_pc = "idle" /\ a_blocking = FALSE /\ a_now = 0 /\ a_queries = 0
  /\ a_result = NoResponse /\ a_exc = ""

(***************************************************************************)
(* SRTSegment._format_time (srt_utils.py)                                  *)
(***************************************************************************)
\* mutant of SRTSegment_format_time: the hours are not taken off before the
\* minutes are counted
SRTSegment_format_time_no_mod(ms) ==
  LET hours        == ms \div 3600000
      minutes      == ms \div 60000
      ms2          == (ms % 3600000) % 60000
      seconds      == ms2 \div 1000
      milliseconds == ms2 % 1000
  IN Padded(hours, 2) \o <<":">> \o Padded(minutes, 2) \o <<":">>
       \o Padded(seconds, 2) \o <<",">> \o Padded(milliseconds, 3)

\* _format_time(ms): 'HH:MM:SS,mmm'
SRTSegment_format_time(ms) ==
  LET hours        == ms \div 3600000
      ms1          == ms % 3600000
      minutes      == ms1 \div 60000
      ms2          == ms1 % 60000
      seconds      == ms2 \div 1000
      milliseconds == ms2 % 1000
  IN Padded(hours, 2) \o <<":">> \o Padded(minutes, 2) \o <<":">>
       \o Padded(seconds, 2) \o <<",">> \o Padded(milliseconds, 3)

\* the values a field is tried on: the first ones and the last one
FieldValues(top) == (0..MaxField) \cup {top}

\* start_ms or end_ms of a segment: whole milliseconds below 100 hours
SrtTimes ==
  {((h * 60 + m) * 60 + s) * 1000 + f :
     h \in FieldValues(99), m \in FieldValues(59),
     s \in FieldValues(59), f \in FieldValues(999)}

SrtFormatInit == sf_pc = "call" /\ sf_ms \in SrtTimes /\ sf_out = <<>>

\* to_srt formats start_ms and end_ms, each by _format_time
SrtFormatCall ==
  /\ sf_pc = "call"
  /\ sf_out' = SRTSegment_format_time(sf_ms)
  /\ sf_pc' = "done"
  /\ UNCHANGED <<sf_ms, mergeVars, selectVars, runDirVars, mainVars, notSrtFormat>>

SrtFormatIdle == sf_pc = "idle" /\ sf_ms = 0 /\ sf_out = <<>>

(***************************************************************************)
(* format_timestamp on times finer than a millisecond, as clip_segments    *)
(* hands them over: a segment time less a fractional pad_before.           *)
(***************************************************************************)
\* the last digit of the ten-thousandths, for the milliseconds at both ends
\* and in the middle of a second
FineInputs ==
  [h : {0, 99}, m : {0, 59}, s : 0..MaxSec,
   ms : {0, 1, 499, 500, 998, 999}, sub : 0..9]

\* the whole seconds of such a time, and its ten-thousandths of a second
FineSeconds(c) == (c.h * 60 + c.m) * 60 + c.s
FineFraction(c) == c.ms * 10 + c.sub

\* the float of such a time: whole seconds + ten-thousandths / 10000.0
FineTime(c) == FloatAddInt(FineSeconds(c), FloatDiv(FineFraction(c), 10000))

FineFormatInit == ft_pc = "call" /\ ft_in \in FineInputs /\ ft_out = <<>>

\* format_timestamp(start), the -ss argument of clip_segments
FineFormatCall ==
  /\ ft_pc = "call"
  /\ ft_out' = format_timestamp(FineTime(ft_in))
  /\ ft_pc' = "done"
  /\ UNCHANGED <<ft_in, mergeVars, selectVars, runDirVars, mainVars, notFineFormat>>

FineFormatIdle ==
  /\ ft_pc = "idle" /\ ft_in = [h |-> 0, m |-> 0, s |-> 0, ms |-> 0, sub |-> 0]
  /\ ft_out = <<>>

(***************************************************************************)
(* Specifications.  A component that takes no part in a specification      *)
(* keeps the idle value of its variables.                                  *)
(***************************************************************************)
vars == <<mergeVars, selectVars, runDirVars, mainVars, utilVars>>

UtilIdle == CodecIdle /\ ParseIdle /\ TranslateIdle /\ WriteIdle /\ AsrIdle /\ SrtFormatIdle /\ FineFormatIdle

MergeIdle  == m_pc = "idle" /\ m_in = <<>> /\ m_out = <<>>
SelectIdle == s_pc = "idle" /\ s_segments = <<>> /\ s_data = EmptyDict
              /\ s_out = Returned(<<>>)
RunDirIdle == /\ rundirs = [n \in Names |-> 0]
              /\ r_pc = [c \in Calls |-> "idle"]
              /\ r_try = [c \in Calls |-> 0]
              /\ r_cand = [c \in Calls |-> 0]
              /\ r_ret = [c \in Calls |-> 0]

InitMerge == MergeInit /\ SelectIdle /\ RunDirIdle /\ MainIdle /\ UtilIdle
NextMerge == MergeCall
SpecMerge == InitMerge /\ [][NextMerge]_vars

InitSelect == SelectInit /\ MergeIdle /\ RunDirIdle /\ MainIdle /\ UtilIdle
NextSelect == SelectCall
SpecSelect == InitSelect /\ [][NextSelect]_vars

InitRunDir == RunDirInit /\ MergeIdle /\ SelectIdle /\ MainIdle /\ UtilIdle
NextRunDir ==
  \E c \in Calls :
    \/ RunDirEnter(c)
    \/ RunDirPickName(c)
    \/ RunDirMkdir(c)
    \/ RunDirGiveUp(c)
SpecRunDir == InitRunDir /\ [][NextRunDir]_vars

InitMain == MainInit /\ MergeIdle /\ SelectIdle /\ RunDirIdle /\ UtilIdle
NextMain ==
  \/ MainCheckArgs
  \/ MainRunDir
  \/ MainTranscribe
  \/ MainParse
  \/ MainLlm
  \/ MainSelect
  \/ MainProbe
  \/ MainClip
  \/ MainSeparate
  \/ MainConcat
  \/ MainSubtitles
  \/ MainBilingual
  \/ MainBurn
SpecMain == InitMain /\ [][NextMain]_vars

InitCodec == CodecInit /\ MergeIdle /\ SelectIdle /\ RunDirIdle /\ MainIdle /\ ParseIdle /\ TranslateIdle /\ WriteIdle /\ AsrIdle /\ SrtFormatIdle /\ FineFormatIdle
NextCodec == CodecCall
SpecCodec == InitCodec /\ [][NextCodec]_vars

InitParse == ParseInit /\ MergeIdle /\ SelectIdle /\ RunDirIdle /\ MainIdle /\ CodecIdle /\ TranslateIdle /\ WriteIdle /\ AsrIdle /\ SrtFormatIdle /\ FineFormatIdle
NextParse == ParseCall
SpecParse == InitParse /\ [][NextParse]_vars

InitTranslate == TranslateInit /\ MergeIdle /\ SelectIdle /\ RunDirIdle /\ MainIdle
                 /\ CodecIdle /\ ParseIdle /\ WriteIdle /\ AsrIdle /\ SrtFormatIdle /\ FineFormatIdle
NextTranslate == TranslateRequest \/ TranslateReturn
SpecTranslate == InitTranslate /\ [][NextTranslate]_vars

InitWrite == WriteInit /\ MergeIdle /\ SelectIdle /\ RunDirIdle /\ MainIdle
             /\ CodecIdle /\ ParseIdle /\ TranslateIdle /\ AsrIdle /\ SrtFormatIdle /\ FineFormatIdle
NextWrite == WriteCall
SpecWrite == InitWrite /\ [][NextWrite]_vars

InitAsr == AsrInit /\ MergeIdle /\ SelectIdle /\ RunDirIdle /\ MainIdle
           /\ CodecIdle /\ ParseIdle /\ TranslateIdle /\ WriteIdle /\ SrtFormatIdle /\ FineFormatIdle
NextAsr == AsrQuery \/ AsrSleep
SpecAsr == InitAsr /\ [][NextAsr]_vars

\* every request returns and every sleep ends: a step that can be taken is taken
SpecAsrFair == SpecAsr /\ WF_vars(NextAsr)

InitSrtFormat == SrtFormatInit /\ MergeIdle /\ SelectIdle /\ RunDirIdle /\ MainIdle
                 /\ CodecIdle /\ ParseIdle /\ TranslateIdle /\ WriteIdle /\ AsrIdle /\ FineFormatIdle
NextSrtFormat == SrtFormatCall
SpecSrtFormat == InitSrtFormat /\ [][NextSrtFormat]_vars

InitFineFormat == FineFormatInit /\ MergeIdle /\ SelectIdle /\ RunDirIdle /\ MainIdle
                  /\ CodecIdle /\ ParseIdle /\ TranslateIdle /\ WriteIdle /\ AsrIdle
                  /\ SrtFormatIdle
NextFineFormat == FineFormatCall
SpecFineFormat == InitFineFormat /\ [][NextFineFormat]_vars

(***************************************************************************)
(* Claims about merge_ranges (SpecMerge).                                  *)
(***************************************************************************)
\* C1: the list merge_ranges returns is sorted by ascending start, and each
\* range starts strictly after the end of the range before it (ranges that
\* touch have been merged).
C1_MergedSortedDisjoint ==
  m_pc = "done" =>
    \A i \in 1..(Len(m_out) - 1) :
      /\ m_out[i].start <= m_out[i + 1].start
      /\ m_out[i + 1].start > m_out[i].end

\* two touching ranges were merged and a separate range was kept
C1_Witness ==
  /\ m_pc = "done"
  /\ Len(m_in) = 3 /\ Len(m_out) = 2
  /\ \E i, j \in DOMAIN m_in :
       i # j /\ m_in[i].start < m_in[i].end /\ m_in[j].start = m_in[i].end

\* the time point p/2 lies in one of the closed ranges of rs
Covered(rs, p) == \E i \in DOMAIN rs : 2 * rs[i].start <= p /\ p <= 2 * rs[i].end

WellFormed(rs) == \A i \in DOMAIN rs : rs[i].start <= rs[i].end

\* C2: when every input range has start <= end, the output covers exactly
\* the time points the input covers (checked at every half tick), and the
\* empty list is merged to the empty list.
C2_MergeKeepsCoverage ==
  m_pc = "done" =>
    /\ (m_in = <<>> => m_out = <<>>)
    /\ WellFormed(m_in) =>
         \A p \in (-1)..(2 * MaxT + 1) : Covered(m_out, p) <=> Covered(m_in, p)

\* a range lying strictly inside an earlier one was absorbed
C2_Witness ==
  /\ m_pc = "done"
  /\ WellFormed(m_in)
  /\ Len(m_out) < Len(m_in)
  /\ \E i, j \in DOMAIN m_in :
       i < j /\ m_in[i].start < m_in[j].start /\ m_in[j].end < m_in[i].end

(***************************************************************************)
(* Claims about select_ranges (SpecSelect).                                *)
(***************************************************************************)
HighlightItems == IF s_data.highlights.k = "list" THEN s_data.highlights.v ELSE <<>>

HasSegment(i) == \E j \in DOMAIN s_segments : s_segments[j].id = i
SegmentWithId(i) == s_segments[CHOOSE j \in DOMAIN s_segments : s_segments[j].id = i]

\* an integer, as Python counts: an int, or the bool true (1) or false (0)
PyInteger(x) == x.k = "int" \/ x.k = "bool"

\* an item as the claim describes a valid one: an object whose two ids are
\* integers naming segments of the transcript
ValidItem(item) ==
  /\ item.k = "dict"
  /\ PyInteger(item.start_id) /\ PyInteger(item.end_id)
  /\ HasSegment(item.start_id.v) /\ HasSegment(item.end_id.v)

ValidIdx == {j \in DOMAIN HighlightItems : ValidItem(HighlightItems[j])}

RankOf(j) == Cardinality({j2 \in ValidIdx : j2 <= j})

Swapped(item) == [item EXCEPT !.start_id = item.end_id, !.end_id = item.start_id]

\* C4: the range of a valid item starts at the start of the segment with the
\* smaller id minus pad_before and ends at the end of the segment with the
\* larger id plus pad_after; the item with its two ids exchanged gives the
\* same range.
C4_RangeFromSegmentTimes ==
  s_pc = "done" =>
    \A j \in ValidIdx :
      LET it == HighlightItems[j]
          lo == Min2(it.start_id.v, it.end_id.v)
          hi == Max2(it.start_id.v, it.end_id.v)
          r  == s_out.ranges[RankOf(j)]
      IN /\ r.start = SegmentWithId(lo).start - it.pad_before
         /\ r.end = SegmentWithId(hi).end + it.pad_after
         /\ select_ranges(Data(JList(<<Swapped(it)>>), TRUE), s_segments)
              = select_ranges(Data(JList(<<it>>), TRUE), s_segments)

\* a valid item with end_id < start_id and both paddings was converted
C4_Witness ==
  /\ s_pc = "done"
  /\ \E j \in ValidIdx :
       LET it == HighlightItems[j]
       IN /\ it.end_id.v < it.start_id.v
          /\ it.pad_before > 0 /\ it.pad_after > 0
          /\ it.pad_before # it.pad_after

(***************************************************************************)
(* Claims about create_run_dir (SpecRunDir).                               *)
(***************************************************************************)
\* C6: the directory an invocation returns did not exist before and was made
\* by that invocation, so two invocations never return the same directory,
\* whatever names they compute and however their steps interleave.
C6_RunDirUniquelyOwned ==
  \A c \in Calls :
    r_pc[c] = "done" =>
      /\ rundirs[r_ret[c]] = c
      /\ \A c2 \in Calls \ {c} : r_pc[c2] = "done" => r_ret[c2] # r_ret[c]

\* no directory existed at first, invocation 1 returned after one attempt and
\* invocation 2 after two: its first name was the one invocation 1 had taken
C6_Witness ==
  /\ \A n \in Names : rundirs[n] # -1
  /\ r_pc[1] = "done" /\ r_try[1] = 1
  /\ r_pc[2] = "done" /\ r_try[2] = 2

\* C7: an invocation makes at most 5 attempts; an attempt on a name that does
\* not exist creates and returns it, an attempt on an existing name creates
\* and returns nothing, and after 5 failed attempts the invocation raises
\* RuntimeError having created and returned no directory.
C7_AtMostFiveAttempts ==
  /\ [](\A c \in Calls :
          /\ r_try[c] <= 5
          /\ r_pc[c] = "error" =>
               /\ r_try[c] = 5
               /\ r_ret[c] = 0
               /\ \A n \in Names : rundirs[n] # c)
  /\ [][\A c \in Calls :
          (r_pc[c] = "mkdir" /\ r_pc'[c] # "mkdir") =>
            IF rundirs[r_cand[c]] = 0
            THEN r_pc'[c] = "done" /\ r_ret'[c] = r_cand[c]
                 /\ rundirs'[r_cand[c]] = c
            ELSE r_pc'[c] = "loop" /\ r_ret'[c] = r_ret[c]
                 /\ rundirs' = rundirs]_vars

\* one invocation gave up after five names that all existed, the other one
\* returned on its third attempt
C7_Witness ==
  \E c, c2 \in Calls :
    /\ r_pc[c] = "error" /\ r_try[c] = 5
    /\ r_pc[c2] = "done" /\ r_try[c2] = 3

(***************************************************************************)
(* Claims about main (SpecMain).                                           *)
(***************************************************************************)
\* number of times the external effect e has happened in the run
Count(e) == Cardinality({i \in DOMAIN trace : trace[i] = e})

StageNo(p) ==
  CASE p = "args" -> 1 [] p = "rundir" -> 2 [] p = "transcribe" -> 3
    [] p = "parse" -> 4 [] p = "llm" -> 5 [] p = "select" -> 6
    [] p = "probe" -> 7 [] p = "clip" -> 8 [] p = "separate" -> 9
    [] p = "concat" -> 9 [] p = "subtitles" -> 10 [] p = "bilingual" -> 11
    [] p = "burn" -> 12 [] p = "done" -> 13 [] OTHER -> 0

\* the run has gone through the stage, or has ended in it
Passed(stage) == StageNo(pc) > StageNo(stage) \/ (pc = stage /\ rc # -1)

\* the model output holds an item the claim calls valid
HasValidItem ==
  /\ llm_output.highlights.k = "list"
  /\ \E j \in DOMAIN llm_output.highlights.v :
       LET it == llm_output.highlights.v[j]
       IN /\ it.k = "dict"
          /\ PyInteger(it.start_id) /\ PyInteger(it.end_id)
          /\ \E n \in DOMAIN segments : segments[n].id = it.start_id.v
          /\ \E n \in DOMAIN segments : segments[n].id = it.end_id.v

\* C5: select_ranges never returns an empty list: without a highlights list,
\* with an empty one or with no valid item it raises ValueError; so the
\* merged list is non-empty when clipping starts, and after the ValueError
\* no clip is cut.
C5_NoEmptySelection ==
  /\ Passed("select") /\ sel.err = "" => sel.ranges # <<>>
  /\ Passed("select") /\ ~HasValidItem =>
       rc = 1 /\ exc = "ValueError" /\ sel.err # ""
  /\ StageNo(pc) > StageNo("select") => ranges # <<>>
  /\ exc = "ValueError" => clips = <<>> /\ Count("ffmpeg:clip") = 0

\* the model answered with two items, neither of them valid
C5_Witness ==
  /\ exc = "ValueError" /\ rc = 1
  /\ llm_output.highlights.k = "list" /\ Len(llm_output.highlights.v) = 2
  /\ sel.err = "ValueError: No valid highlight ranges produced."

\* C8: with --resume, whisper is not run on the input video when the
\* transcript is in the run directory, and is run exactly once when it is
\* not.
C8_TranscriptReuseByPresence ==
  args.resume =>
    /\ cached.transcript.present => Count("whisper:input") = 0
    /\ ~cached.transcript.present /\ Passed("transcribe") => Count("whisper:input") = 1
    /\ Count("whisper:input") <= 1

\* a resumed run that found the transcript ended well without whisper on the
\* input, though whisper ran on the concatenated video
C8_Witness ==
  /\ args.resume /\ cached.transcript.present
  /\ rc = 0
  /\ Count("whisper:input") = 0 /\ Count("whisper:concat") = 1

\* llm-output.json held readable, non-empty JSON when the run began
CacheHit == cached.llm.k = "json" /\ cached.llm.d.nonempty

C10_NoReuseWithoutResume ==
  ~args.resume =>
    /\ Passed("transcribe") => Count("whisper:input") = 1
    /\ Passed("llm") => Count("llm:select") = 1
    /\ (Passed("subtitles") /\ args.mode = "concat" /\ args.subtitles = "auto") =>
         Count("whisper:concat") = 1

\* a run without --resume on a run directory holding all three artifacts
\* ended well
C10_Witness ==
  /\ ~args.resume /\ args.run_dir
  /\ cached.transcript.present /\ CacheHit /\ cached.final.present
  /\ args.mode = "concat" /\ args.subtitles = "auto"
  /\ rc = 0
  /\ Count("whisper:input") = 1 /\ Count("llm:select") = 1 /\ Count("whisper:concat") = 1

\* the run has ended with the message of the --resume check and has touched
\* nothing: no directory made, no tool run, no file written
RejectedUntouched ==
  /\ pc = "args" /\ trace = <<>> /\ files = cached /\ printed = <<>>
  /\ rc # -1 => rc = 2 /\ exc = "" /\ msg = "--resume requires --run-dir"

CodecTime == FloatOfMs(TotalMs(c_in))

\* a and b are doubles next to each other
Adjacent(a, b) ==
  \/ AddUlp(a, LowestKept(a)) = b
  \/ AddUlp(b, LowestKept(b)) = a

\* the whole number of milliseconds nearest to x, computed exactly
NearestMs(x) == PyRound(TimesInt(x, 1000))

\* C12 as stated: parse_timestamp(format_timestamp(t)) = t and
\* parse_timestamp(format_timestamp_srt(t)) = t for every whole number of
\* milliseconds t, and format_timestamp(parse_timestamp(s)) = s for every
\* well-formed string s.
C12_AsStated ==
  c_pc = "done" =>
    /\ c_out.parsed = Value(CodecTime)
    /\ c_out.parsed_srt = Value(CodecTime)
    /\ c_out.reformatted = StringOf(c_in)

\* C12: for every whole number of milliseconds t below 100 hours,
\* format_timestamp(t) is the string 'HH:MM:SS.mmm' of t, and parse_timestamp
\* of it, or of the string of format_timestamp_srt, is the float t or a float
\* next to t, t to the nearest millisecond; and for every well-formed string
\* s, format_timestamp(parse_timestamp(s)) = s.
C12_CodecRoundTrip ==
  c_pc = "done" =>
    /\ c_out.formatted = StringOf(c_in)
    /\ \A p \in {c_out.parsed, c_out.parsed_srt} :
         /\ p.err = ""
         /\ p.x = CodecTime \/ Adjacent(p.x, CodecTime)
         /\ NearestMs(p.x) = TotalMs(c_in)
    /\ c_out.reformatted = StringOf(c_in)

\* 00:00:01.118 went through both round trips, and the float that came back
\* is not the float 1.118
C12_Witness ==
  /\ c_pc = "done"
  /\ c_in = [h |-> 0, m |-> 0, s |-> 1, ms |-> 118]
  /\ c_out.parsed.err = "" /\ c_out.parsed.x # CodecTime
  /\ c_out.reformatted = StringOf(c_in)

(***************************************************************************)
(* Claims about parse_srt and reindex_segments (SpecParse).                *)
(***************************************************************************)
\* the subtitle blocks of a file: the runs of lines between blank lines
RECURSIVE BlocksOf(_, _)
BlocksOf(lines, cur) ==
  IF lines = <<>> THEN (IF cur = <<>> THEN <<>> ELSE <<cur>>)
  ELSE IF Head(lines).k = "blank"
       THEN (IF cur = <<>> THEN <<>> ELSE <<cur>>) \o BlocksOf(Tail(lines), <<>>)
       ELSE BlocksOf(Tail(lines), Append(cur, Head(lines)))

\* a block the claim says gives a segment: two lines or more, one of them
\* with a time range
HoldsTimeRange(block) ==
  Len(block) >= 2 /\ \E j \in DOMAIN block : block[j].k = "time"

\* C13: reindex_segments(parse_srt(file)) has one segment per block that
\* contains a time range and has two lines or more, in the order of the
\* blocks in the file, with the ids 1, 2, ..., n; the other blocks are
\* dropped and take no id.
C13_OneSegmentPerTimedBlock ==
  p_pc = "done" =>
    LET blocks == BlocksOf(p_file, <<>>)
    IN /\ Len(p_out) = Cardinality({b \in DOMAIN blocks : HoldsTimeRange(blocks[b])})
       /\ \A i \in DOMAIN p_out : p_out[i].id = i
       /\ \A i \in 1..(Len(p_out) - 1) : p_out[i].start < p_out[i + 1].start

(***************************************************************************)
(* Claims about translate_segments (SpecTranslate).                        *)
(***************************************************************************)
\* the ids sent so far, in the order they were sent
RECURSIVE Flattened(_)
Flattened(chunks) ==
  IF chunks = <<>> THEN <<>> ELSE Head(chunks) \o Flattened(Tail(chunks))

\* the least k such that 50 k >= n
CeilOver50(n) == CHOOSE k \in 0..n : 50 * k >= n /\ (k = 0 \/ 50 * (k - 1) < n)

\* C14: translate_segments sends the segments in consecutive chunks of at
\* most 50: at any time the requests made hold, in order and once each, the
\* first segments of the list, every request but the last in full chunks of
\* 50; when the call returns, every segment has been sent in exactly one
\* request and ceil(n/50) requests have been made, none for n = 0.
C14_ChunksOfFifty ==
  LET sent == Flattened(t_requests)
      n    == Len(t_segments)
  IN /\ Len(sent) <= n /\ sent = SubSeq(t_segments, 1, Len(sent))
     /\ \A r \in DOMAIN t_requests :
          /\ Len(t_requests[r]) \in 1..50
          /\ r < Len(t_requests) => Len(t_requests[r]) = 50
     /\ t_pc = "done" =>
          /\ sent = t_segments
          /\ Len(t_requests) = CeilOver50(n)
          /\ n = 0 => t_requests = <<>>

\* 101 segments were sent in three requests, of 50, 50 and 1
C14_Witness ==
  /\ t_pc = "done"
  /\ Len(t_segments) = 101
  /\ Len(t_requests) = 3 /\ Len(t_requests[3]) = 1

(***************************************************************************)
(* Claims about write_srt (SpecWrite).                                     *)
(***************************************************************************)
\* the translations map holds a non-empty string for the id of the segment
HasTranslation(seg) ==
  /\ w_translations.k = "dict"
  /\ seg.id \in DOMAIN w_translations.d
  /\ w_translations.d[seg.id] # ""

\* lines of the block of the segment at position r, and the line it starts at
BlockSize(r) == IF HasTranslation(w_segments[r]) THEN 5 ELSE 4

RECURSIVE BlockStart(_)
BlockStart(r) == IF r = 1 THEN 1 ELSE BlockStart(r - 1) + BlockSize(r - 1)

\* the time of a segment as the file shows it: hh:mm:ss,mmm
SrtStamp(ms) ==
  Padded(ms \div 3600000, 2) \o <<":">> \o Padded((ms \div 60000) % 60, 2) \o <<":">>
    \o Padded((ms \div 1000) % 60, 2) \o <<",">> \o Padded(ms % 1000, 3)

\* C15: write_srt writes one block per input segment, in input order: the
\* number r of the segment, its own start and end time, its stripped text,
\* the translated line if and only if the translations map holds a non-empty
\* string for its id, and an empty line; nothing else is written.
C15_WriteKeepsEverySegment ==
  w_pc = "done" =>
    LET n == Len(w_segments)
    IN /\ Len(w_out) = IF n = 0 THEN 0 ELSE BlockStart(n) + BlockSize(n) - 1
       /\ \A r \in 1..n :
            LET seg == w_segments[r]
                at  == BlockStart(r)
            IN /\ w_out[at] = Decimal(r)
               /\ w_out[at + 1] = SrtStamp(NearestMs(seg.start)) \o Arrow
                                    \o SrtStamp(NearestMs(seg.end))
               /\ w_out[at + 2] = Chars(Strip(seg.text))
               /\ IF HasTranslation(seg)
                  THEN /\ w_out[at + 3] = Chars(w_translations.d[seg.id])
                       /\ w_out[at + 4] = <<>>
                  ELSE w_out[at + 3] = <<>>

\* two segments were written, the first with its translation and the second,
\* whose translation is the empty string, with its text alone
C15_Witness ==
  /\ w_pc = "done"
  /\ Len(w_segments) = 2 /\ Len(w_out) = 9
  /\ w_segments[1].id = 2 /\ w_segments[2].id = 1
  /\ w_translations = MapOf([id \in {1, 2} |-> IF id = 1 THEN "" ELSE "t"])
  /\ w_segments[1].start # w_segments[2].start

(***************************************************************************)
(* Claims about the stages of main (SpecMain).                             *)
(***************************************************************************)
\* the stage of concat mode an external effect belongs to
StageOf(e) ==
  CASE e \in {"makedirs:run_dir", "create_run_dir"} -> 0
    [] e = "whisper:input" -> 1
    [] e \in {"llm:select", "write:llm-output.json", "select_ranges"} -> 2
    [] e = "ffprobe" -> 3
    [] e = "ffmpeg:clip" -> 4
    [] e = "ffmpeg:concat" -> 5
    [] e \in {"whisper:concat", "llm:translate", "write:bilingual.srt"} -> 6
    [] e = "ffmpeg:burn" -> 7
    [] OTHER -> 8

\* the stages of a run in concat mode, as far as it has come: the effects
\* are in the order of the stages; a stage has begun only when the one
\* before it has given its result; there is one probe, one cut per range,
\* one concatenation and one burn; and the output path is printed, with
\* exit code 0, only as the last thing after the burn
ConcatStagesInOrder ==
  /\ \A i, j \in DOMAIN trace : i < j => StageOf(trace[i]) <= StageOf(trace[j])
  /\ \A i \in DOMAIN trace : StageOf(trace[i]) < 8
  /\ Count("llm:select") + Count("select_ranges") > 0 => segments # <<>>
  /\ Count("ffprobe") > 0 => sel.err = "" /\ ranges # <<>>
  /\ Count("ffmpeg:clip") > 0 => Count("ffprobe") = 1
  /\ Count("ffmpeg:clip") <= Len(ranges) /\ Len(clips) <= Count("ffmpeg:clip")
  /\ Count("ffmpeg:concat") > 0 =>
       Count("ffmpeg:concat") = 1 /\ Len(clips) = Len(ranges)
  /\ (Count("whisper:concat") + Count("llm:translate") + Count("ffmpeg:burn") > 0
        \/ StageNo(pc) > StageNo("concat")) =>
       Count("ffmpeg:concat") = 1 /\ StageNo(pc) > StageNo("concat")
  /\ Count("ffmpeg:burn") > 0 =>
       Count("ffmpeg:burn") = 1 /\ final_srt.present /\ trace[Len(trace)] = "ffmpeg:burn"
  /\ rc \notin {-1, 0} => printed = <<>>
  /\ (printed # <<>> \/ rc = 0) =>
       /\ printed = <<OutputFile(0)>> /\ rc = 0 /\ exc = ""
       /\ Count("ffmpeg:burn") = 1 /\ trace[Len(trace)] = "ffmpeg:burn"

\* C16 as stated: in concat mode the stages run in this order, a failure
\* stops the run and no stage starts before the one before it has
\* succeeded; so no clip is cut unless the probe has found the duration.
C16_AsStated ==
  args.mode = "concat" =>
    /\ ConcatStagesInOrder
    /\ Count("ffmpeg:clip") > 0 => video_duration # JNone

\* C16: in concat mode the stages run in the order transcription, highlight
\* selection, duration probe, cutting of every clip, one concatenation,
\* subtitle preparation, one burn; a stage starts only when the one before it
\* has given its result, and the failure of any stage but the probe ends the
\* run: nothing happens after a non-zero exit code or an exception.  A probe
\* that finds no duration does not end the run: the ranges are cut as they
\* were merged.  The output path is printed, with exit code 0, only after
\* the burn has succeeded.
C16_ConcatStagesInOrder ==
  /\ [](args.mode = "concat" =>
          /\ ConcatStagesInOrder
          /\ (StageNo(pc) > StageNo("probe") /\ video_duration = JNone) =>
               ranges = merge_ranges(sel.ranges))
  /\ [][rc = -1]_vars

\* a run in concat mode ended well after two cuts, one concatenation, one
\* transcription of the result, a translation and the burn
C16_Witness ==
  /\ args.mode = "concat" /\ args.subtitles = "auto" /\ args.bilingual
  /\ rc = 0 /\ printed = <<OutputFile(0)>>
  /\ Count("ffmpeg:clip") = 2 /\ Count("ffmpeg:concat") = 1
  /\ Count("whisper:concat") = 1 /\ Count("llm:translate") = 1
  /\ Count("ffmpeg:burn") = 1

\* the occurrences of effect e among the first n effects
CountUpTo(e, n) == Cardinality({i \in 1..n : trace[i] = e})

\* C17: in separate mode the run burns once per clip, in the order of the
\* clips and each time into the file numbered as the clip, so that a run
\* which ends well over k clips has burnt k times into k distinct files
\* '<base>-01', '<base>-02', ... and printed these k files; it never
\* concatenates and never burns into the output path itself.
C17_SeparateOutputs ==
  args.mode = "separate" =>
    /\ Count("ffmpeg:concat") = 0 /\ Count("whisper:concat") = 0
    /\ \A p \in DOMAIN trace :
         trace[p] = "ffmpeg:burn" =>
           /\ CountUpTo("whisper:clip", p) = CountUpTo("ffmpeg:burn", p)
           /\ CountUpTo("ffmpeg:burn", p) <= Len(clips)
    /\ Len(output_files) <= Count("ffmpeg:burn")
    /\ Count("ffmpeg:burn") <= Len(output_files) + 1
    /\ \A i \in DOMAIN output_files :
         /\ output_files[i] = [base |-> "output_path", n |-> i]
         /\ \A j \in DOMAIN output_files : i # j => output_files[i] # output_files[j]
    /\ printed # <<>> => rc = 0
    /\ rc = 0 =>
         /\ clips # <<>> /\ Len(clips) = Len(ranges)
         /\ Count("ffmpeg:burn") = Len(clips)
         /\ Len(output_files) = Len(clips)
         /\ printed = output_files

\* a run in separate mode ended well over two clips
C17_Witness ==
  /\ args.mode = "separate" /\ rc = 0 /\ Len(clips) = 2
  /\ Count("ffmpeg:burn") = 2 /\ Len(printed) = 2 /\ printed[1] # printed[2]

\* C18: the clips cut so far are the first ranges in their order, one clip
\* per range and numbered by position; the ranges are in ascending order of
\* start, also after the clamp to the video duration, and so are the clips;
\* every clip starts at 0 or later, at the start of its range, lasts at
\* least 0.1 second and reaches the end of its range; when clip_segments
\* has returned there are as many clips as ranges, each cut by one ffmpeg run.
C18_OneClipPerRange ==
  /\ Len(clips) <= Len(ranges)
  /\ Count("ffmpeg:clip") \in {Len(clips), Len(clips) + 1}
  /\ \A i, j \in DOMAIN ranges : i < j => ranges[i].start <= ranges[j].start
  /\ \A i, j \in DOMAIN clips : i < j => clips[i].start <= clips[j].start
  /\ \A i \in DOMAIN clips :
       /\ clips[i].start >= 0 /\ clips[i].duration >= MinClip
       /\ clips[i].start = Max2(0, ranges[i].start)
       /\ clips[i].start + clips[i].duration >= ranges[i].end
       /\ ranges[i].end - ranges[i].start >= MinClip =>
            clips[i].start + clips[i].duration = ranges[i].end
  /\ StageNo(pc) > StageNo("clip") =>
       /\ Len(clips) = Len(ranges) /\ clips # <<>>
       /\ Count("ffmpeg:clip") = Len(ranges)

\* two clips were cut from two ranges, the second of which the clamp to the
\* video duration has left shorter than 0.1 second
C18_Witness ==
  /\ StageNo(pc) > StageNo("clip") /\ Len(clips) = 2
  /\ video_duration # JNone
  /\ ranges[2].end - ranges[2].start < MinClip
  /\ clips[2].duration = MinClip

(***************************************************************************)
(* Claims about DoubaoASRClient._query_result (SpecAsr, SpecAsrFair).      *)
(***************************************************************************)
\* the call has ended, by a return or by an exception
AsrEnded == a_pc \in {"returned", "raised"}

\* the code of the last response is 0 (False is 0 to Python)
CodeIsZero == a_result.code \in {JInt(0), JBool(0)}

\* C19: a blocking call returns a response only if it has code 0 and holds
\* 'utterances'; a response whose code is not 0 or is missing raises
\* 'Query failed' at once, with or without 'utterances' and in either
\* mode; a call that does not block sends one request and, when the code
\* is 0, returns its response also without 'utterances'.
C19_QueryOutcomes ==
  /\ (a_pc = "returned" /\ a_blocking) => CodeIsZero /\ a_result.utterances
  /\ a_pc = "returned" => CodeIsZero /\ a_exc = "" /\ a_result # NoResponse
  /\ (a_queries > 0 /\ a_result # NoResponse /\ ~CodeIsZero) =>
       a_pc = "raised" /\ a_exc = "Query failed"
  /\ a_exc = "Query failed" => ~CodeIsZero /\ a_pc = "raised"
  /\ ~a_blocking =>
       /\ a_queries <= 1
       /\ a_queries = 1 => AsrEnded
       /\ (a_queries = 1 /\ a_result # NoResponse /\ CodeIsZero) => a_pc = "returned"

\* a blocking call has returned a finished response after it had to wait
C19_Witness ==
  /\ a_blocking /\ a_pc = "returned" /\ a_queries = 3 /\ a_now = 2 * poll_interval
  /\ a_result.utterances

\* C20: when every request returns and every sleep ends, the call ends: it
\* returns or it raises 'Query failed' or 'Query timeout' (or the exception
\* of a request that failed).  It ends only after at least one request;
\* 'Query timeout' is raised only by the step that has just sent a request,
\* only in a blocking call and only when more than max_wait seconds have
\* passed; the call sleeps only while no more than max_wait have passed; and
\* no request is sent once the call has ended.
C20_QueryTerminates ==
  /\ <>AsrEnded
  /\ [](AsrEnded => a_queries >= 1)
  /\ [](a_pc = "raised" => a_exc \in {"Query failed", "Query timeout", "RequestException"})
  /\ [](a_exc = "Query timeout" => a_pc = "raised" /\ a_blocking /\ a_now > max_wait)
  /\ [](a_pc = "sleep" => a_blocking /\ a_now <= max_wait)
  /\ [][(a_exc' = "Query timeout" /\ a_exc # "Query timeout") =>
          a_queries' = a_queries + 1]_vars
  /\ [][AsrEnded => a_queries' = a_queries]_vars

\* the timeout was raised by the first request sent after max_wait seconds
C20_Witness ==
  /\ a_exc = "Query timeout" /\ a_pc = "raised"
  /\ a_now = max_wait + poll_interval /\ a_queries = 2 + max_wait \div poll_interval

(***************************************************************************)
(* Claims about SRTSegment._format_time (SpecSrtFormat).                   *)
(***************************************************************************)
\* the number written in the characters a..b of the string returned
SrtField(a, b) == IntOf(SubSeq(sf_out, a, b))

\* C21: for every whole number of milliseconds from 0 to below 100 hours,
\* _format_time returns twelve characters 'HH:MM:SS,mmm' whose four numbers
\* h, m, s, f satisfy m < 60, s < 60, f < 1000 and
\* h*3600000 + m*60000 + s*1000 + f = ms.
C21_FormatTimeExact ==
  sf_pc = "done" =>
    /\ Len(sf_out) = 12
    /\ \A j \in {1, 2, 4, 5, 7, 8, 10, 11, 12} : IsDigit(sf_out[j])
    /\ sf_out[3] = ":" /\ sf_out[6] = ":" /\ sf_out[9] = ","
    /\ SrtField(4, 5) < 60 /\ SrtField(7, 8) < 60 /\ SrtField(10, 12) < 1000
    /\ SrtField(1, 2) * 3600000 + SrtField(4, 5) * 60000
         + SrtField(7, 8) * 1000 + SrtField(10, 12) = sf_ms

\* the last millisecond before 100 hours was formatted
C21_Witness ==
  /\ sf_pc = "done" /\ sf_ms = 100 * 3600000 - 1
  /\ sf_out = <<"9", "9", ":", "5", "9", ":", "5", "9", ",", "9", "9", "9">>

(***************************************************************************)
(* Claims about format_timestamp on fine times (SpecFineFormat).           *)
(***************************************************************************)
\* the number written in the characters a..b of the string returned
FineField(a, b) == IntOf(SubSeq(ft_out, a, b))

\* the time the string returned names, less the time given, in
\* ten-thousandths of a second
FineError ==
  ((FineField(1, 2) * 60 + FineField(4, 5)) * 60 + FineField(7, 8)
     - FineSeconds(ft_in)) * 10000
  + FineField(10, Len(ft_out)) * 10 - FineFraction(ft_in)

\* C22: for every non-negative time given in ten-thousandths of a second,
\* format_timestamp returns 'HH:MM:SS.mmm' with a millisecond field of three
\* digits, so between 000 and 999, seconds and minutes below 60, and a time
\* that differs from the one given by at most half a millisecond.
C22_WellFormedTimestamp ==
  ft_pc = "done" =>
    /\ Len(ft_out) = 12
    /\ ft_out[3] = ":" /\ ft_out[6] = ":" /\ ft_out[9] = "."
    /\ FineField(10, Len(ft_out)) <= 999
    /\ FineField(4, 5) < 60 /\ FineField(7, 8) < 60
    /\ FineError >= -5 /\ FineError <= 5


\* C23: the source intervals [start, start + duration] of any two clips cut
\* are disjoint: each clip ends before the next one starts.
C23_ClipsDisjoint ==
  \A i, j \in DOMAIN clips :
    i < j => clips[i].start + clips[i].duration < clips[j].start


(***************************************************************************)
(* Claims about the scores and reasons of merge_ranges (SpecMerge).        *)
(***************************************************************************)
\* the input in ascending order of start, ranges of equal start in the order given
MergeSorted == SortedByStart(m_in)

\* the ways to cut the sorted input into as many runs as there are output
\* ranges: cut[k] is the place of the first range of run k
MergeCuts ==
  {cut \in [DOMAIN m_out -> DOMAIN MergeSorted] :
     /\ cut[1] = 1
     /\ \A k \in 1..(Len(m_out) - 1) : cut[k] < cut[k + 1]}

\* the input ranges of run k
MergeRun(cut, k) ==
  SubSeq(MergeSorted, cut[k],
         IF k = Len(m_out) THEN Len(MergeSorted) ELSE cut[k + 1] - 1)

LargestScore(run) ==
  CHOOSE x \in {run[i].score : i \in DOMAIN run} :
    \A i \in DOMAIN run : run[i].score <= x

FirstReason(run) ==
  IF \A i \in DOMAIN run : run[i].reason = "" THEN ""
  ELSE run[CHOOSE i \in DOMAIN run :
             /\ run[i].reason # ""
             /\ \A j \in 1..(i - 1) : run[j].reason = ""].reason

\* C24: merging the output again gives the output, and the output ranges are
\* the runs of the input in ascending order of start: every range of a run
\* but the first starts no later than the ranges before it in the run end,
\* and the output range has the start of the first, the largest end, the
\* largest score, and the first reason that is not empty.
C24_MergeIdempotentBestScore ==
  m_pc = "done" =>
    /\ merge_ranges(m_out) = m_out
    /\ (m_in = <<>>) <=> (m_out = <<>>)
    /\ m_in # <<>> =>
         \E cut \in MergeCuts :
           \A k \in DOMAIN m_out :
             LET run == MergeRun(cut, k)
             IN /\ m_out[k].start = run[1].start
                /\ \A i \in DOMAIN run : run[i].end <= m_out[k].end
                /\ \E i \in DOMAIN run : run[i].end = m_out[k].end
                /\ \A i \in 2..Len(run) :
                     \E j \in 1..(i - 1) : run[i].start <= run[j].end
                /\ m_out[k].score = LargestScore(run)
                /\ m_out[k].reason = FirstReason(run)

\* three ranges were merged into one whose score and reason are not those of
\* the range that starts first
C24_Witness ==
  /\ m_pc = "done" /\ Len(m_in) = 3 /\ Len(m_out) = 1
  /\ MergeSorted[1].reason = "" /\ m_out[1].reason # ""
  /\ m_out[1].score > MergeSorted[1].score

====
